---- MODULE Spec2Model ----
(***************************************************************************)
(* A model of the node state machine of the bitcoin prototype              *)
(* (src/src/node.py and the modules it imports).                           *)
(*                                                                         *)
(* Every public method of Node is one action.  Peer calls are synchronous  *)
(* re-entrant method calls, so an action computes the whole call tree: the *)
(* methods are operators from a world W (the fields of every node, the     *)
(* calls made so far, the pending exception) to the world they leave.      *)
(*                                                                         *)
(* Byte strings are pairs <<length, content>>.  crypto_hash is modelled as *)
(* a collision-free digest: 32 bytes long and determined by its pre-image. *)
(* Python objects that are compared by identity (Transaction defines no    *)
(* __eq__) carry an object identity "oid" besides their fields.            *)
(***************************************************************************)
EXTENDS Integers, Sequences, FiniteSets, TLC

\* the nodes of the network; node n holds the key pair (n, n)
Nodes == {1, 2, 3}

\* bounds of the model: the number of public calls that change a node, in Spec and
\* in SpecDirect
MaxCalls == 5
MaxDirectCalls == 4

(***************************************************************************)
(* constants.py                                                            *)
(***************************************************************************)
GENESIS_BLOCK_PREV == <<7, <<>>>>
BLOCK_SIZE == 10
NUM_OF_COINBASE_PER_BLOCK == 1
NUM_OF_MEMPOOL_TXS_PER_BLOCK == BLOCK_SIZE - NUM_OF_COINBASE_PER_BLOCK
SHA256_DIGEST_LEN == 256 \div 8
SIGNATURE_LEN == 64

(***************************************************************************)
(* Python values                                                           *)
(***************************************************************************)
\* None, as the value of Transaction.input
None == <<>>
\* b''
EmptyBytes == <<0, <<>>>>
\* len(b) of a byte string
ByteLen(b) == b[1]
\* x in xs, for a list xs
InList(x, xs) == \E i \in DOMAIN xs : xs[i] = x
\* xs.index(x), zero based, for x in xs
IndexOf(xs, x) == (CHOOSE i \in DOMAIN xs : xs[i] = x /\ \A j \in 1..(i - 1) : xs[j] # x) - 1
\* xs[:n]
Prefix(xs, n) == SubSeq(xs, 1, IF Len(xs) < n THEN Len(xs) ELSE n)
\* truthiness of a returned value: None and False are falsy
Truthy(v) == v = "True"

(***************************************************************************)
(* cryptographic_utils.py                                                  *)
(***************************************************************************)
crypto_hash(input) == <<SHA256_DIGEST_LEN, input>>
\* an Ed25519 signature names its signing key and the message signed
sign(message, private_key) == [by |-> private_key, nonce |-> 0, msg |-> message]
\* secrets.token_bytes(SIGNATURE_LEN): the k-th draw of random bytes
token_bytes(k) == [by |-> 0, nonce |-> k, msg |-> <<>>]
verify(message, signature, public_key) ==
    signature.by = public_key /\ signature.msg = message

(***************************************************************************)
(* transaction.py, block.py                                                *)
(***************************************************************************)
Transaction(output, input, signature, oid) ==
    [output |-> output, input |-> input, signature |-> signature, oid |-> oid]
get_id(tx) ==
    crypto_hash(<<tx.output, IF tx.input = None THEN EmptyBytes ELSE tx.input, tx.signature>>)
is_coinbase(tx) == tx.input = None
\* the fields of a transaction object, without its identity
Fields(tx) == [output |-> tx.output, input |-> tx.input, signature |-> tx.signature]

Block(prev_block_hash, transactions) ==
    [prev_block_hash |-> prev_block_hash, transactions |-> transactions]
get_hash(block) ==
    crypto_hash(<<[i \in DOMAIN block.transactions |-> get_id(block.transactions[i])],
                  block.prev_block_hash>>)

(***************************************************************************)
(* data_classes.py                                                         *)
(***************************************************************************)
NodeState(blockchain, utxo, mempool) ==
    [blockchain |-> blockchain, utxo |-> utxo, mempool |-> mempool]
ForkData(fork_block_hash, new_branch, new_branch_hashes) ==
    [fork_block_hash |-> fork_block_hash, new_branch |-> new_branch,
     new_branch_hashes |-> new_branch_hashes]
get_potential_forked_chain_len(fork_data, main_hash_chain) ==
    LET common_hashes_len == IndexOf(main_hash_chain, fork_data.fork_block_hash) + 1
    IN common_hashes_len + Len(fork_data.new_branch)

\* the transaction objects a NodeState refers to
RECURSIVE ChainTxs(_)
ChainTxs(blockchain) ==
    IF blockchain = <<>> THEN <<>>
    ELSE Head(blockchain).transactions \o ChainTxs(Tail(blockchain))
SeqToSet(xs) == {xs[i] : i \in DOMAIN xs}
StateObjects(st) ==
    SeqToSet(ChainTxs(st.blockchain)) \cup SeqToSet(st.utxo) \cup SeqToSet(st.mempool)

(***************************************************************************)
(* validations.py                                                          *)
(***************************************************************************)
\* validate_transaction_pre_mempool_access, were the utxo not consulted
validate_transaction_without_utxo(transaction, st, id_to_tx) ==
    LET is_valid_type ==
            /\ transaction.input # None
            /\ ByteLen(transaction.input) = SHA256_DIGEST_LEN
    IN  IF ~is_valid_type THEN FALSE
        ELSE IF transaction.input \notin DOMAIN id_to_tx THEN FALSE
        ELSE IF ~verify(<<transaction.input, transaction.output>>,
                        transaction.signature,
                        id_to_tx[transaction.input].output) THEN FALSE
        ELSE ~InList(transaction.input, [i \in DOMAIN st.mempool |-> st.mempool[i].input])
validate_transaction_pre_mempool_access(transaction, st, id_to_tx) ==
    LET is_valid_type ==
            /\ transaction.input # None
            /\ ByteLen(transaction.input) = SHA256_DIGEST_LEN
    IN  IF ~is_valid_type THEN FALSE
        ELSE IF transaction.input \notin DOMAIN id_to_tx THEN FALSE
        ELSE IF ~verify(<<transaction.input, transaction.output>>,
                        transaction.signature,
                        id_to_tx[transaction.input].output) THEN FALSE
        ELSE IF ~InList(transaction.input, [i \in DOMAIN st.utxo |-> get_id(st.utxo[i])])
             THEN FALSE
        ELSE ~InList(transaction.input, [i \in DOMAIN st.mempool |-> st.mempool[i].input])

\* validate_block_structure, were the number of transactions not checked
validate_block_structure_of_any_size(block, block_hash) ==
    LET transactions == block.transactions
        coinbase_txs == SelectSeq(transactions, is_coinbase)
    IN  /\ get_hash(block) = block_hash
        /\ Len(coinbase_txs) = NUM_OF_COINBASE_PER_BLOCK

validate_block_structure(block, block_hash) ==
    LET transactions == block.transactions
        coinbase_txs == SelectSeq(transactions, is_coinbase)
    IN  /\ get_hash(block) = block_hash
        /\ Len(transactions) <= BLOCK_SIZE
        /\ Len(coinbase_txs) = NUM_OF_COINBASE_PER_BLOCK

(***************************************************************************)
(* The state of the program                                                *)
(***************************************************************************)
VARIABLES
    \* Node._state of every node: a NodeState
    state,
    \* Node._connections of every node: a set of nodes
    connections,
    \* Node._id_to_transaction of every node: a dict from TransactionID to Transaction
    id_to_transaction,
    \* the number of draws made from secrets.token_bytes
    rnd,
    \* the number of public calls made so far that changed some node
    calls,
    \* the number of such calls the specification allows
    limit,
    \* the public call that has just returned, for its caller to inspect: its name,
    \* receiver, arguments and result, the exception it raised ("" for none), the
    \* peer calls made while it ran and the world it started in; Idle between calls
    last

vars == <<state, connections, id_to_transaction, rnd, calls, limit, last>>

\* the world an operation starts in
World ==
    [state |-> state, connections |-> connections,
     id_to_transaction |-> id_to_transaction, log |-> <<>>, raised |-> ""]

\* dict[key] = value
DictSet(dict, key, value) ==
    [k \in (DOMAIN dict) \cup {key} |-> IF k = key THEN value ELSE dict[k]]

(***************************************************************************)
(* Object identity                                                         *)
(***************************************************************************)
\* every transaction object some node refers to
LiveObjects(W) ==
    UNION {StateObjects(W.state[n]) \cup
           {W.id_to_transaction[n][k] : k \in DOMAIN W.id_to_transaction[n]} : n \in Nodes}
\* the k-th smallest identity not in used
FreshOid(used, k) ==
    CHOOSE x \in 0..(Cardinality(used) + k) :
        /\ x \notin used
        /\ Cardinality({y \in 0..x : y \notin used}) = k
\* the identity of a new object with the fields of tx: one no live object with these
\* fields has
NewOid(W, tx) ==
    FreshOid({t.oid : t \in {u \in LiveObjects(W) : Fields(u) = Fields(tx)}}, 1)

\* NodeState.copy: deepcopy(self).  Every object of the state is copied once, so
\* two references to one object stay references to one (new) object.
copy(W, st) ==
    LET objs == StateObjects(st)
        live == LiveObjects(W)
        twin(t) ==
            LET used == {u.oid : u \in {v \in live : Fields(v) = Fields(t)}}
                rank == Cardinality({u \in objs : Fields(u) = Fields(t) /\ u.oid <= t.oid})
            IN  [t EXCEPT !.oid = FreshOid(used, rank)]
        twins(txs) == [i \in DOMAIN txs |-> twin(txs[i])]
    IN  NodeState([i \in DOMAIN st.blockchain |->
                      Block(st.blockchain[i].prev_block_hash,
                            twins(st.blockchain[i].transactions))],
                  twins(st.utxo), twins(st.mempool))

(***************************************************************************)
(* node.py: queries                                                        *)
(***************************************************************************)
get_address(n) == n
get_connections(W, self) == W.connections[self]
get_mempool(W, self) == W.state[self].mempool
get_utxo(W, self) == W.state[self].utxo
\* get_latest_hash, were the hash taken from the first block of the chain
get_first_hash(W, self) ==
    LET blockchain == W.state[self].blockchain
    IN  IF blockchain # <<>> THEN get_hash(blockchain[1])
        ELSE GENESIS_BLOCK_PREV
get_latest_hash(W, self) ==
    LET blockchain == W.state[self].blockchain
    IN  IF blockchain # <<>> THEN get_hash(blockchain[Len(blockchain)])
        ELSE GENESIS_BLOCK_PREV
\* get_block, were the latest block returned for a hash that no block has
get_block_or_latest(W, self, block_hash) ==
    LET blockchain == W.state[self].blockchain
        found == {i \in DOMAIN blockchain : get_hash(blockchain[i]) = block_hash}
    IN  IF found = {} THEN (IF blockchain = <<>> THEN <<>>
                            ELSE <<blockchain[Len(blockchain)]>>)
        ELSE <<blockchain[CHOOSE i \in found : \A j \in found : i <= j]>>
\* the block found, as a one-element list, or the empty list for ValueError
get_block(W, self, block_hash) ==
    LET blockchain == W.state[self].blockchain
        found == {i \in DOMAIN blockchain : get_hash(blockchain[i]) = block_hash}
    IN  IF found = {} THEN <<>>
        ELSE <<blockchain[CHOOSE i \in found : \A j \in found : i <= j]>>
_get_my_unspent_transactions(W, self) ==
    LET mine(t) == t.output = get_address(self)
    IN  SelectSeq(W.state[self].utxo, mine)
get_balance(W, self) == Len(_get_my_unspent_transactions(W, self))
_get_blockchain_hashes(W, self) ==
    LET blockchain == W.state[self].blockchain
    IN  <<GENESIS_BLOCK_PREV>> \o [i \in DOMAIN blockchain |-> get_hash(blockchain[i])]

(***************************************************************************)
(* node.py: fork discovery, rollback and roll-forward.  These methods work *)
(* on a frame F: the NodeState handed to them, the node's                  *)
(* _id_to_transaction, and the exception raised ("" for none).             *)
(***************************************************************************)
Frame(st, id_to_tx, raised) == [state |-> st, id_to_tx |-> id_to_tx, raised |-> raised]

\* the while loop of _find_forking_point; sender.get_block raises ValueError
RECURSIVE _find_forking_point_loop(_, _, _, _, _, _)
_find_forking_point_loop(W, self, sender, running_hash, new_branch, new_branch_hashes) ==
    IF InList(running_hash, _get_blockchain_hashes(W, self))
    THEN [raised |-> "",
          fork_data |-> ForkData(running_hash, new_branch, new_branch_hashes)]
    ELSE LET got == get_block(W, sender, running_hash)
         IN  IF got = <<>>
             THEN [raised |-> "ValueError", fork_data |-> ForkData(running_hash, <<>>, <<>>)]
             ELSE LET running_block == got[1]
                  IN  _find_forking_point_loop(W, self, sender,
                          running_block.prev_block_hash,
                          <<running_block>> \o new_branch,
                          <<running_hash>> \o new_branch_hashes)
_find_forking_point(W, self, block_hash, sender) ==
    _find_forking_point_loop(W, self, sender, block_hash, <<>>, <<>>)

\* _introduce_valid_transaction_into_state, were the coin spent left in the utxo
_introduce_valid_transaction_keeping_spent(F, transaction) ==
    LET transaction_id == get_id(transaction)
        keep_pending(t) == t # transaction /\ t.input # transaction.input
        mempool == SelectSeq(F.state.mempool, keep_pending)
    IN  Frame(NodeState(F.state.blockchain, Append(F.state.utxo, transaction), mempool),
              DictSet(F.id_to_tx, transaction_id, transaction),
              F.raised)

_introduce_valid_transaction_into_state(F, transaction) ==
    LET transaction_id == get_id(transaction)
        keep_pending(t) == t # transaction /\ t.input # transaction.input
        keep_unspent(t) == get_id(t) # transaction.input
        mempool == SelectSeq(F.state.mempool, keep_pending)
        utxo == IF ~is_coinbase(transaction)
                THEN SelectSeq(F.state.utxo, keep_unspent)
                ELSE F.state.utxo
    IN  Frame(NodeState(F.state.blockchain, Append(utxo, transaction), mempool),
              DictSet(F.id_to_tx, transaction_id, transaction),
              F.raised)

\* for transaction in transactions: _introduce_valid_transaction_into_state(...)
RECURSIVE IntroduceAll(_, _)
IntroduceAll(F, transactions) ==
    IF transactions = <<>> THEN F
    ELSE IntroduceAll(_introduce_valid_transaction_into_state(F, Head(transactions)),
                      Tail(transactions))

\* _validate_block_and_update_state, were each transaction validated against the
\* state as the earlier transactions of the block left it
RECURSIVE ValidatedInTurn(_, _)
ValidatedInTurn(F, transactions) ==
    IF transactions = <<>> THEN [valid |-> TRUE, frame |-> F]
    ELSE IF /\ ~is_coinbase(Head(transactions))
            /\ ~validate_transaction_pre_mempool_access(Head(transactions), F.state, F.id_to_tx)
    THEN [valid |-> FALSE, frame |-> F]
    ELSE ValidatedInTurn(_introduce_valid_transaction_into_state(F, Head(transactions)),
                         Tail(transactions))
_validate_block_and_update_state_in_turn(F, block, block_hash) ==
    IF ~validate_block_structure(block, block_hash) THEN [ret |-> "False", frame |-> F]
    ELSE LET r == ValidatedInTurn(F, block.transactions)
         IN  IF ~r.valid THEN [ret |-> "False", frame |-> F]
             ELSE [ret |-> "None",
                   frame |-> [r.frame EXCEPT !.state.blockchain = @ \o <<block>>]]
\* the value returned, and the frame left.  The method ends without a return
\* statement when the block is valid: it returns None then.
_validate_block_and_update_state(F, block, block_hash) ==
    LET has_valid_structure == validate_block_structure(block, block_hash)
        has_valid_transactions ==
            \A i \in DOMAIN block.transactions :
                is_coinbase(block.transactions[i]) \/
                validate_transaction_pre_mempool_access(
                    block.transactions[i], F.state, F.id_to_tx)
    IN  IF ~has_valid_structure THEN [ret |-> "False", frame |-> F]
        ELSE IF ~has_valid_transactions THEN [ret |-> "False", frame |-> F]
        ELSE LET G == IntroduceAll(F, block.transactions)
             IN  [ret |-> "None",
                  frame |-> [G EXCEPT !.state.blockchain = G.state.blockchain \o <<block>>]]

RECURSIVE _add_new_branch_to_state(_, _, _)
_add_new_branch_to_state(F, branch, branch_hashes) ==
    IF branch = <<>> \/ branch_hashes = <<>> THEN F
    ELSE LET r == _validate_block_and_update_state(F, Head(branch), Head(branch_hashes))
             is_valid_block == r.ret
         IN  IF ~Truthy(is_valid_block) THEN r.frame
             ELSE _add_new_branch_to_state(r.frame, Tail(branch), Tail(branch_hashes))

\* the frame left and the block rolled back; list.pop raises IndexError on an
\* empty list and the dict lookup raises KeyError
_rollback_latest_block(F) ==
    IF F.state.blockchain = <<>>
    THEN [frame |-> [F EXCEPT !.raised = "IndexError"], block |-> Block(GENESIS_BLOCK_PREV, <<>>)]
    ELSE
    LET latest_block == F.state.blockchain[Len(F.state.blockchain)]
        blockchain == SubSeq(F.state.blockchain, 1, Len(F.state.blockchain) - 1)
        block_transactions == latest_block.transactions
        block_transaction_ids == [i \in DOMAIN block_transactions |->
                                     get_id(block_transactions[i])]
        not_of_block(t) == ~InList(t, block_transactions)
        utxo == SelectSeq(F.state.utxo, not_of_block)
        spending(t) == ~is_coinbase(t)
        spenders == SelectSeq(block_transactions, spending)
        unknown == \E i \in DOMAIN spenders : spenders[i].input \notin DOMAIN F.id_to_tx
        curr_block_spent_transactions ==
            [i \in DOMAIN spenders |-> F.id_to_tx[spenders[i].input]]
        still_funded(t) == ~InList(t.input, block_transaction_ids)
    IN  IF unknown
        THEN [frame |-> Frame(NodeState(blockchain, utxo, F.state.mempool),
                              F.id_to_tx, "KeyError"),
              block |-> latest_block]
        ELSE [frame |-> Frame(NodeState(blockchain,
                                        utxo \o curr_block_spent_transactions,
                                        SelectSeq(F.state.mempool, still_funded)),
                              F.id_to_tx, F.raised),
              block |-> latest_block]

RECURSIVE _rollback_loop(_, _, _)
_rollback_loop(F, current_hash, fork_hash) ==
    IF current_hash = fork_hash \/ F.raised # "" THEN F
    ELSE LET r == _rollback_latest_block(F)
         IN  _rollback_loop(r.frame, r.block.prev_block_hash, fork_hash)
_rollback_state_to_forking_point(W, self, fork_hash, F) ==
    _rollback_loop(F, get_latest_hash(W, self), fork_hash)

\* the frame holding the state returned (and the node's dict, which
\* roll-forward writes to)
_reorg_blockchain(W, self, fork_data) ==
    LET F0 == Frame(copy(W, W.state[self]), W.id_to_transaction[self], "")
        F1 == _rollback_state_to_forking_point(W, self, fork_data.fork_block_hash, F0)
    IN  IF F1.raised # "" THEN F1
        ELSE _add_new_branch_to_state(F1, fork_data.new_branch, fork_data.new_branch_hashes)

(***************************************************************************)
(* node.py: the methods that call peers.  ord is the order in which a      *)
(* "for node in self._connections" loop visits the nodes of a set.         *)
(***************************************************************************)
PeersInOrder(peers, ord) ==
    LET is_peer(n) == n \in peers
    IN  SelectSeq(ord, is_peer)

\* the record of one call made to a peer; at is the caller's state when it calls
PeerCall(call, to, from, what) == [call |-> call, to |-> to, from |-> from, what |-> what]
Logged(W, call, to, from, what) ==
    [W EXCEPT !.log = Append(W.log, PeerCall(call, to, from, what)
                                    @@ [at |-> W.state[from]])]

RECURSIVE get_introduced_to_new_block(_, _, _, _, _)
RECURSIVE _publish_latest_block_loop(_, _, _, _)

_publish_latest_block_loop(W, self, peers, ord) ==
    IF peers = <<>> \/ W.raised # "" THEN W
    ELSE LET node == Head(peers)
             block_hash == get_latest_hash(W, self)
             W1 == Logged(W, "get_introduced_to_new_block", node, self, block_hash)
         IN  _publish_latest_block_loop(
                 get_introduced_to_new_block(W1, node, block_hash, self, ord),
                 self, Tail(peers), ord)
\* _publish_latest_block, were every other node told and not the peers only
_publish_latest_block_to_all(W, self, ord) ==
    _publish_latest_block_loop(W, self, PeersInOrder(Nodes \ {self}, ord), ord)
_publish_latest_block(W, self, ord) ==
    _publish_latest_block_loop(W, self, PeersInOrder(W.connections[self], ord), ord)

\* get_introduced_to_new_block, were a chain of equal length enough to replace
\* the node's own
get_introduced_to_new_block_on_tie(W, self, block_hash, sender, ord) ==
    LET curr_hash_chain == _get_blockchain_hashes(W, self)
    IN  IF InList(block_hash, curr_hash_chain) THEN W
        ELSE
        LET found == _find_forking_point(W, self, block_hash, sender)
            fork_data == found.fork_data
        IN  IF found.raised = "ValueError" THEN W
            ELSE
            LET potential_new_chain_len ==
                    get_potential_forked_chain_len(fork_data, curr_hash_chain)
            IN  IF potential_new_chain_len < Len(curr_hash_chain) THEN W
                ELSE
                LET F == _reorg_blockchain(W, self, fork_data)
                    new_state == F.state
                    W1 == [W EXCEPT !.id_to_transaction[self] = F.id_to_tx]
                IN  IF F.raised # "" THEN [W EXCEPT !.raised = F.raised]
                    ELSE IF Len(W.state[self].blockchain) <= Len(new_state.blockchain)
                    THEN _publish_latest_block([W1 EXCEPT !.state[self] = new_state],
                                               self, ord)
                    ELSE W1

\* get_introduced_to_new_block, were the ValueError of the fork walk not caught
get_introduced_to_new_block_uncaught(W, self, block_hash, sender, ord) ==
    LET curr_hash_chain == _get_blockchain_hashes(W, self)
    IN  IF InList(block_hash, curr_hash_chain) THEN W
        ELSE
        LET found == _find_forking_point(W, self, block_hash, sender)
            fork_data == found.fork_data
        IN  IF found.raised = "ValueError" THEN [W EXCEPT !.raised = "ValueError"]
            ELSE
            LET potential_new_chain_len ==
                    get_potential_forked_chain_len(fork_data, curr_hash_chain)
            IN  IF potential_new_chain_len <= Len(curr_hash_chain) THEN W
                ELSE
                LET F == _reorg_blockchain(W, self, fork_data)
                    new_state == F.state
                    W1 == [W EXCEPT !.id_to_transaction[self] = F.id_to_tx]
                IN  IF F.raised # "" THEN [W EXCEPT !.raised = F.raised]
                    ELSE IF Len(W.state[self].blockchain) < Len(new_state.blockchain)
                    THEN _publish_latest_block([W1 EXCEPT !.state[self] = new_state],
                                               self, ord)
                    ELSE W1

get_introduced_to_new_block(W, self, block_hash, sender, ord) ==
    LET curr_hash_chain == _get_blockchain_hashes(W, self)
    IN  IF InList(block_hash, curr_hash_chain) THEN W
        ELSE
        LET found == _find_forking_point(W, self, block_hash, sender)
            fork_data == found.fork_data
        IN  IF found.raised = "ValueError" THEN W
            ELSE
            LET potential_new_chain_len ==
                    get_potential_forked_chain_len(fork_data, curr_hash_chain)
            IN  IF potential_new_chain_len <= Len(curr_hash_chain) THEN W
                ELSE
                LET F == _reorg_blockchain(W, self, fork_data)
                    new_state == F.state
                    W1 == [W EXCEPT !.id_to_transaction[self] = F.id_to_tx]
                IN  IF F.raised # "" THEN [W EXCEPT !.raised = F.raised]
                    ELSE IF Len(W.state[self].blockchain) < Len(new_state.blockchain)
                    THEN _publish_latest_block([W1 EXCEPT !.state[self] = new_state],
                                               self, ord)
                    ELSE W1

_create_coinbase(W, self, k) ==
    LET coinbase == Transaction(get_address(self), None, token_bytes(k), 0)
    IN  [coinbase EXCEPT !.oid = NewOid(W, coinbase)]

\* _introduce_valid_block_into_state, were the block published once appended and
\* its transactions introduced after that
_introduce_valid_block_into_state_publishing_early(W, self, block, ord) ==
    LET W1 == [W EXCEPT !.state[self].blockchain = Append(@, block)]
        W2 == _publish_latest_block(W1, self, ord)
        F == IntroduceAll(Frame(W2.state[self], W2.id_to_transaction[self], ""),
                          block.transactions)
    IN  [W2 EXCEPT !.state[self] = F.state, !.id_to_transaction[self] = F.id_to_tx]

_introduce_valid_block_into_state(W, self, block, ord) ==
    LET F == IntroduceAll(Frame(W.state[self], W.id_to_transaction[self], ""),
                          block.transactions)
        W1 == [W EXCEPT !.state[self] =
                            [F.state EXCEPT !.blockchain = Append(F.state.blockchain, block)],
                        !.id_to_transaction[self] = F.id_to_tx]
    IN  _publish_latest_block(W1, self, ord)

\* the block mined and the world left; k numbers the draw of random bytes
mine_block(W, self, k, ord) ==
    LET coinbase_transactions == <<_create_coinbase(W, self, k)>>
        mempool_transactions == Prefix(W.state[self].mempool, NUM_OF_MEMPOOL_TXS_PER_BLOCK)
        new_block == Block(get_latest_hash(W, self),
                           coinbase_transactions \o mempool_transactions)
    IN  [world |-> _introduce_valid_block_into_state(W, self, new_block, ord),
         ret |-> get_hash(new_block)]

RECURSIVE connect(_, _, _, _)
\* connect, were the pending transactions of the caller handed to the new peer
connect_sharing_mempool(W, self, other, ord) ==
    IF get_address(other) = get_address(self) THEN [W EXCEPT !.raised = "ValueError"]
    ELSE IF other \in W.connections[self] THEN W
    ELSE LET W1 == [W EXCEPT !.connections[self] = @ \cup {other}]
             W2 == connect(W1, other, self, ord)
             W3 == get_introduced_to_new_block(
                       Logged(W2, "get_introduced_to_new_block", other, self,
                              get_latest_hash(W2, self)),
                       other, get_latest_hash(W2, self), self, ord)
         IN  IF W2.raised # "" THEN W2
             ELSE [W3 EXCEPT !.state[other].mempool = @ \o W3.state[self].mempool]

\* connect, were the node's own address not refused
connect_to_self(W, self, other, ord) ==
    IF other \in W.connections[self] THEN W
    ELSE LET W1 == [W EXCEPT !.connections[self] = @ \cup {other}]
             W2 == connect(W1, other, self, ord)
         IN  IF W2.raised # "" THEN W2
             ELSE get_introduced_to_new_block(
                      Logged(W2, "get_introduced_to_new_block", other, self,
                             get_latest_hash(W2, self)),
                      other, get_latest_hash(W2, self), self, ord)

connect(W, self, other, ord) ==
    IF get_address(other) = get_address(self) THEN [W EXCEPT !.raised = "ValueError"]
    ELSE IF other \in W.connections[self] THEN W
    ELSE LET W1 == [W EXCEPT !.connections[self] = @ \cup {other}]
             W2 == connect(W1, other, self, ord)
         IN  IF W2.raised # "" THEN W2
             ELSE get_introduced_to_new_block(
                      Logged(W2, "get_introduced_to_new_block", other, self,
                             get_latest_hash(W2, self)),
                      other, get_latest_hash(W2, self), self, ord)

\* disconnect_from, were the peer not told to disconnect in turn
disconnect_from_one_sided(W, self, other) ==
    IF other \notin W.connections[self] THEN W
    ELSE [W EXCEPT !.connections[self] = @ \ {other}]

RECURSIVE disconnect_from(_, _, _)
disconnect_from(W, self, other) ==
    IF other \notin W.connections[self] THEN W
    ELSE disconnect_from([W EXCEPT !.connections[self] = @ \ {other}], other, self)

RECURSIVE add_transaction_to_mempool(_, _, _, _)
RECURSIVE _publish_new_transaction_loop(_, _, _, _, _)

\* _publish_new_transaction, were every peer called whatever its mempool holds
_publish_new_transaction_loop_to_all(W, self, transaction, peers, ord) ==
    IF peers = <<>> \/ W.raised # "" THEN W
    ELSE LET node == Head(peers)
             W1 == add_transaction_to_mempool(
                       Logged(W, "add_transaction_to_mempool", node, self,
                              get_id(transaction)),
                       node, transaction, ord)
         IN  _publish_new_transaction_loop(W1, self, transaction, Tail(peers), ord)

_publish_new_transaction_loop(W, self, transaction, peers, ord) ==
    IF peers = <<>> \/ W.raised # "" THEN W
    ELSE LET node == Head(peers)
             transaction_id == get_id(transaction)
             mempool == get_mempool(W, node)
             connection_known_txs == [i \in DOMAIN mempool |-> get_id(mempool[i])]
             W1 == IF ~InList(transaction_id, connection_known_txs)
                   THEN add_transaction_to_mempool(
                            Logged(W, "add_transaction_to_mempool", node, self,
                                   transaction_id),
                            node, transaction, ord)
                   ELSE W
         IN  _publish_new_transaction_loop(W1, self, transaction, Tail(peers), ord)
_publish_new_transaction(W, self, transaction, ord) ==
    _publish_new_transaction_loop(W, self, transaction,
                                  PeersInOrder(W.connections[self], ord), ord)

_add_new_transaction_to_mempool(W, self, transaction, ord) ==
    LET W1 == [W EXCEPT !.state[self].mempool = Append(@, transaction),
                        !.id_to_transaction[self] =
                            DictSet(@, get_id(transaction), transaction)]
    IN  _publish_new_transaction(W1, self, transaction, ord)

\* add_transaction_to_mempool, were the transaction put in the dict before it is
\* validated
add_transaction_to_mempool_indexing_first(W, self, transaction, ord) ==
    LET is_valid_transaction ==
            validate_transaction_pre_mempool_access(
                transaction, W.state[self], W.id_to_transaction[self])
        W0 == [W EXCEPT !.id_to_transaction[self] =
                            DictSet(@, get_id(transaction), transaction)]
    IN  IF ~is_valid_transaction THEN W0
        ELSE _add_new_transaction_to_mempool(W0, self, transaction, ord)

\* the world left; the value returned is that of the validation
add_transaction_to_mempool(W, self, transaction, ord) ==
    LET is_valid_transaction ==
            validate_transaction_pre_mempool_access(
                transaction, W.state[self], W.id_to_transaction[self])
    IN  IF ~is_valid_transaction THEN W
        ELSE _add_new_transaction_to_mempool(W, self, transaction, ord)

\* the coins set(owned_funds).difference(frozen_funds) holds: pop() returns any
\* one of them
_get_unspent_owned_transaction(W, self) ==
    LET owned_funds == _get_my_unspent_transactions(W, self)
        owned_funds_ids == [i \in DOMAIN owned_funds |-> get_id(owned_funds[i])]
        promised(t) == InList(t.input, owned_funds_ids)
        spenders == SelectSeq(W.state[self].mempool, promised)
        frozen_funds == [i \in DOMAIN spenders |->
                            W.id_to_transaction[self][spenders[i].input]]
    IN  SeqToSet(owned_funds) \ SeqToSet(frozen_funds)

_sign_new_transaction(W, self, unspent_transaction_id, target_public_key) ==
    LET signature == sign(<<unspent_transaction_id, target_public_key>>, self)
        transaction == Transaction(target_public_key, unspent_transaction_id, signature, 0)
    IN  [transaction EXCEPT !.oid = NewOid(W, transaction)]

\* the transaction returned (as a one-element list, or the empty list for None) and
\* the world left, when pop() returns unspent_transaction
create_transaction(W, self, target_public_key, unspent_transaction, ord) ==
    IF _get_unspent_owned_transaction(W, self) = {}
    THEN [world |-> W, ret |-> <<>>]
    ELSE LET new_transaction ==
                 _sign_new_transaction(W, self, get_id(unspent_transaction),
                                       target_public_key)
         IN  [world |-> _add_new_transaction_to_mempool(W, self, new_transaction, ord),
              ret |-> <<new_transaction>>]

\* clear_mempool, were the mempools of the peers cleared as well
clear_mempool_of_peers(W, self) ==
    [W EXCEPT !.state = [n \in Nodes |->
                            IF n = self \/ n \in W.connections[self]
                            THEN [W.state[n] EXCEPT !.mempool = <<>>]
                            ELSE W.state[n]]]
clear_mempool(W, self) == [W EXCEPT !.state[self].mempool = <<>>]

(***************************************************************************)
(* The public calls                                                        *)
(***************************************************************************)
\* the orders a loop over a set of nodes can take
RECURSIVE Orders(_)
Orders(S) ==
    IF S = {} THEN {<<>>}
    ELSE UNION {{<<n>> \o o : o \in Orders(S \ {n})} : n \in S}
\* the orders that matter when the peer sets are conn: one, when no set has two nodes
LoopOrders(conn) ==
    IF \A n \in Nodes : Cardinality(conn[n]) <= 1
    THEN {CHOOSE o \in Orders(Nodes) : TRUE}
    ELSE Orders(Nodes)

\* every block hash held by some node, the genesis hash, and a hash no node holds
JunkHash == <<60, <<>>>>
KnownHashes ==
    UNION {SeqToSet(_get_blockchain_hashes(World, n)) : n \in Nodes} \cup {JunkHash}

\* the transactions a caller may hand to add_transaction_to_mempool of node self:
\* any transaction object some node holds, or a new transaction, unlike any held,
\* that pays self a coin of self's utxo, or a 7 byte input, with any node's signature
OfferedTransactions(self) ==
    LET live == LiveObjects(World)
        seen == {get_id(t) : t \in SeqToSet(state[self].utxo)} \cup {GENESIS_BLOCK_PREV}
        drafts == {Transaction(target, input, sign(<<input, target>>, signer), 0) :
                       target \in {get_address(self)}, input \in seen, signer \in Nodes}
    IN  live \cup {t \in drafts : \A u \in live : Fields(u) # Fields(t)}

Idle ==
    [op |-> "idle", node |-> 0, arg |-> <<>>, ret |-> <<>>, raised |-> "", log |-> <<>>,
     pre |-> <<>>]

\* the call op(arg) on node has returned ret, or raised, and left the world W
Returns(op, node, arg, ret, world) ==
    \E W \in {world} :
    LET changed == \/ W.state # state
                   \/ W.id_to_transaction # id_to_transaction
                   \/ W.connections # connections
    IN  /\ state' = W.state
        /\ connections' = W.connections
        /\ id_to_transaction' = W.id_to_transaction
        /\ calls' = IF changed THEN calls + 1 ELSE calls
        /\ limit' = limit
        /\ last' = [op |-> op, node |-> node, arg |-> arg,
                    ret |-> IF W.raised = "" THEN ret ELSE <<>>,
                    raised |-> W.raised, log |-> W.log,
                    pre |-> [state |-> state, connections |-> connections,
                             id_to_transaction |-> id_to_transaction]]

\* a node nothing tells from a newly constructed one
Fresh(n) ==
    /\ connections[n] = {}
    /\ state[n] = NodeState(<<>>, <<>>, <<>>)
    /\ id_to_transaction[n] = <<>>
    /\ \A t \in LiveObjects(World) : t.output # get_address(n)
\* Nodes are alike but for their names: of the calls that differ only in which
\* fresh nodes they name, the one naming the lowest is taken
LowestFresh(named) ==
    \A i \in DOMAIN named :
        Fresh(named[i]) =>
            \A m \in Nodes : (m < named[i] /\ Fresh(m)) => \E j \in 1..(i - 1) : named[j] = m
\* a caller may call when the last call has been inspected
CanCall(named) == last = Idle /\ calls < limit /\ LowestFresh(named)

\* __init__, were every node constructed with the others as its peers
ConstructedConnected ==
    /\ state = [n \in Nodes |-> NodeState(<<>>, <<>>, <<>>)]
    /\ connections = [n \in Nodes |-> Nodes \ {n}]
    /\ id_to_transaction = [n \in Nodes |-> <<>>]
    /\ rnd = 0
    /\ calls = 0
    /\ last = Idle
\* every node as __init__ leaves it
Constructed ==
    /\ state = [n \in Nodes |-> NodeState(<<>>, <<>>, <<>>)]
    /\ connections = [n \in Nodes |-> {}]
    /\ id_to_transaction = [n \in Nodes |-> <<>>]
    /\ rnd = 0
    /\ calls = 0
    /\ last = Idle
Init == Constructed /\ limit = MaxCalls
InitDirect == Constructed /\ limit = MaxDirectCalls

Connect(self, other) ==
    /\ CanCall(<<self, other>>)
    /\ \E ord \in LoopOrders([connections EXCEPT ![self] = @ \cup {other},
                                                 ![other] = @ \cup {self}]) :
           Returns("connect", self, <<other>>, <<>>, connect(World, self, other, ord))
    /\ UNCHANGED rnd

DisconnectFrom(self, other) ==
    /\ CanCall(<<self, other>>)
    /\ Returns("disconnect_from", self, <<other>>, <<>>, disconnect_from(World, self, other))
    /\ UNCHANGED rnd

MineBlock(self) ==
    /\ CanCall(<<self>>)
    /\ \E ord \in LoopOrders(connections) :
           LET r == mine_block(World, self, rnd + 1, ord)
           IN  Returns("mine_block", self, <<>>, <<r.ret>>, r.world)
    /\ rnd' = rnd + 1

CreateTransaction(self, target_public_key) ==
    /\ CanCall(<<self, target_public_key>>)
    /\ LET available == _get_unspent_owned_transaction(World, self)
       IN  IF available = {}
           THEN Returns("create_transaction", self, <<target_public_key>>, <<>>, World)
           ELSE \E unspent_transaction \in available, ord \in LoopOrders(connections) :
                    LET r == create_transaction(World, self, target_public_key,
                                                unspent_transaction, ord)
                    IN  Returns("create_transaction", self, <<target_public_key>>,
                                r.ret, r.world)
    /\ UNCHANGED rnd

AddTransactionToMempool(self, transaction) ==
    /\ CanCall(<<self, transaction.output>>)
    /\ LET ret == validate_transaction_pre_mempool_access(
                      transaction, state[self], id_to_transaction[self])
       IN  \E ord \in (IF ret THEN LoopOrders(connections) ELSE {<<>>}) :
               Returns("add_transaction_to_mempool", self, <<transaction>>, <<ret>>,
                       add_transaction_to_mempool(World, self, transaction, ord))
    /\ UNCHANGED rnd

ClearMempool(self) ==
    /\ CanCall(<<self>>)
    /\ Returns("clear_mempool", self, <<>>, <<>>, clear_mempool(World, self))
    /\ UNCHANGED rnd

GetIntroducedToNewBlock(self, block_hash, sender) ==
    /\ CanCall(<<self, sender>>)
    /\ \E ord \in LoopOrders(connections) :
           Returns("get_introduced_to_new_block", self, <<block_hash, sender>>, <<>>,
                   get_introduced_to_new_block(World, self, block_hash, sender, ord))
    /\ UNCHANGED rnd

GetBlock(self, block_hash) ==
    /\ CanCall(<<self>>)
    /\ LET got == get_block(World, self, block_hash)
       IN  Returns("get_block", self, <<block_hash>>, got,
                   [World EXCEPT !.raised = IF got = <<>> THEN "ValueError" ELSE ""])
    /\ UNCHANGED rnd

\* the caller has inspected the call that returned
Return ==
    /\ last # Idle
    /\ last' = Idle
    /\ UNCHANGED <<state, connections, id_to_transaction, rnd, calls, limit>>

\* the calls that start gossip, and those a test makes
Call ==
    \/ \E self \in Nodes, other \in Nodes : Connect(self, other)
    \/ \E self \in Nodes, other \in Nodes : DisconnectFrom(self, other)
    \/ \E self \in Nodes : MineBlock(self)
    \/ \E self \in Nodes, target \in Nodes : CreateTransaction(self, target)
    \/ \E self \in Nodes : \E transaction \in OfferedTransactions(self) :
           AddTransactionToMempool(self, transaction)
    \/ \E self \in Nodes : ClearMempool(self)
DirectCall ==
    \/ \E self \in Nodes, sender \in Nodes : \E block_hash \in KnownHashes :
           GetIntroducedToNewBlock(self, block_hash, sender)
    \/ \E self \in Nodes : \E block_hash \in KnownHashes : GetBlock(self, block_hash)

Next == Call \/ Return
Spec == Init /\ [][Next]_vars

\* with the calls a peer makes (get_introduced_to_new_block, get_block) made directly
NextDirect == Call \/ DirectCall \/ Return
SpecDirect == InitDirect /\ [][NextDirect]_vars

(***************************************************************************)
(* src/node.py and src/validations.py: the copy of the program kept beside *)
(* src/src.  Its Node has no mine_block and no create_transaction, and its *)
(* get_introduced_to_new_block returns after the length test; connect,     *)
(* disconnect_from and the gossip of transactions read as in src/src.      *)
(***************************************************************************)
\* the value returned and the exception raised.  "coin_being_spent in None"
\* raises TypeError whatever the dict returned, so no line after it is reached
root_validate_transaction_pre_mempool_access(transaction, utxo, mempool, txid_to_tx) ==
    LET is_valid_type ==
            /\ transaction.input # None
            /\ ByteLen(transaction.input) = SHA256_DIGEST_LEN
    IN  IF ~is_valid_type THEN [ret |-> FALSE, raised |-> ""]
        ELSE [ret |-> FALSE, raised |-> "TypeError"]

\* every path returns before anything of the node is written; a ValueError of
\* the sender's get_block is caught
root_get_introduced_to_new_block(W, self, block_hash, sender) == W

RECURSIVE root_connect(_, _, _)
root_connect(W, self, other) ==
    IF get_address(other) = get_address(self) THEN [W EXCEPT !.raised = "Exception"]
    ELSE IF other \in W.connections[self] THEN W
    ELSE LET W1 == [W EXCEPT !.connections[self] = @ \cup {other}]
             W2 == root_connect(W1, other, self)
         IN  IF W2.raised # "" THEN W2
             ELSE root_get_introduced_to_new_block(
                      Logged(W2, "get_introduced_to_new_block", other, self,
                             get_latest_hash(W2, self)),
                      other, get_latest_hash(W2, self), self)

RECURSIVE root_add_transaction_to_mempool(_, _, _, _)
RECURSIVE root_publish_new_transaction_loop(_, _, _, _, _)
root_publish_new_transaction_loop(W, self, transaction, peers, ord) ==
    IF peers = <<>> \/ W.raised # "" THEN W
    ELSE LET node == Head(peers)
             mempool == get_mempool(W, node)
             connection_known_txs == [i \in DOMAIN mempool |-> get_id(mempool[i])]
             W1 == IF ~InList(get_id(transaction), connection_known_txs)
                   THEN root_add_transaction_to_mempool(
                            Logged(W, "add_transaction_to_mempool", node, self,
                                   get_id(transaction)),
                            node, transaction, ord)
                   ELSE W
         IN  root_publish_new_transaction_loop(W1, self, transaction, Tail(peers), ord)
root_add_transaction_to_mempool(W, self, transaction, ord) ==
    LET is_valid_transaction ==
            root_validate_transaction_pre_mempool_access(
                transaction, W.state[self].utxo, W.state[self].mempool,
                W.id_to_transaction[self])
    IN  IF is_valid_transaction.raised # ""
        THEN [W EXCEPT !.raised = is_valid_transaction.raised]
        ELSE IF ~is_valid_transaction.ret THEN W
        ELSE root_publish_new_transaction_loop(
                 [W EXCEPT !.state[self].mempool = Append(@, transaction),
                           !.id_to_transaction[self] =
                               DictSet(@, get_id(transaction), transaction)],
                 self, transaction, PeersInOrder(W.connections[self], ord), ord)

\* the transactions a caller may hand to a node that has seen none: a coinbase,
\* one with a 7 byte input and one with the 32 byte identifier of that coinbase
RootOfferedTransactions(self) ==
    LET coinbase == Transaction(get_address(self), None, token_bytes(0), 0)
    IN  {coinbase}
        \cup {Transaction(get_address(self), input,
                          sign(<<input, get_address(self)>>, self), 0) :
                  input \in {GENESIS_BLOCK_PREV, get_id(coinbase)}}

RootConnect(self, other) ==
    /\ CanCall(<<self, other>>)
    /\ Returns("connect", self, <<other>>, <<>>, root_connect(World, self, other))
    /\ UNCHANGED rnd

RootAddTransactionToMempool(self, transaction) ==
    /\ CanCall(<<self>>)
    /\ LET is_valid_transaction ==
               root_validate_transaction_pre_mempool_access(
                   transaction, state[self].utxo, state[self].mempool,
                   id_to_transaction[self])
       IN  \E ord \in (IF is_valid_transaction.ret THEN LoopOrders(connections)
                       ELSE {<<>>}) :
               Returns("add_transaction_to_mempool", self, <<transaction>>,
                       <<is_valid_transaction.ret>>,
                       root_add_transaction_to_mempool(World, self, transaction, ord))
    /\ UNCHANGED rnd

NextRoot ==
    \/ \E self \in Nodes, other \in Nodes : RootConnect(self, other)
    \/ \E self \in Nodes, other \in Nodes : DisconnectFrom(self, other)
    \/ \E self \in Nodes : \E transaction \in RootOfferedTransactions(self) :
           RootAddTransactionToMempool(self, transaction)
    \/ Return
SpecRoot == Init /\ [][NextRoot]_vars

(***************************************************************************)
(* A node with a full mempool.  A block takes nine mempool entries, so the *)
(* calls below start from the worlds that a test reaches by mining and     *)
(* spending nine or ten coins first.                                       *)
(***************************************************************************)
MaxFullCalls == 2
\* the order in which the loops of the calls made first visit the peers
FirstOrder == CHOOSE o \in Orders(Nodes) : TRUE
\* the world left by n calls self.mine_block(), drawing the random bytes k + 1, ...
RECURSIVE Mined(_, _, _, _)
Mined(W, self, n, k) ==
    IF n = 0 THEN W
    ELSE CHOOSE left \in {Mined(W1, self, n - 1, k + 1) :
                              W1 \in {mine_block(W, self, k + 1, FirstOrder).world}} : TRUE
\* the world left by n calls self.create_transaction(target), the i-th of which
\* pops the i-th coin that self owns
RECURSIVE Created(_, _, _, _)
Created(W, self, target, n) ==
    IF n = 0 THEN W
    ELSE CHOOSE left \in
             {IF _get_my_unspent_transactions(W1, self)[n]
                     \in _get_unspent_owned_transaction(W1, self)
              THEN create_transaction(W1, self, target,
                                      _get_my_unspent_transactions(W1, self)[n],
                                      FirstOrder).world
              ELSE W1 : W1 \in {Created(W, self, target, n - 1)}} : TRUE
\* the world of the nodes as __init__ leaves them
NewWorld ==
    [state |-> [n \in Nodes |-> NodeState(<<>>, <<>>, <<>>)],
     connections |-> [n \in Nodes |-> {}],
     id_to_transaction |-> [n \in Nodes |-> <<>>],
     log |-> <<>>, raised |-> ""]
\* node 1 has mined ten blocks and has nine transactions pending
FullAlone ==
    Created(Mined(NewWorld, 1, NUM_OF_MEMPOOL_TXS_PER_BLOCK + 1, 0), 1, 2,
            NUM_OF_MEMPOOL_TXS_PER_BLOCK)
\* node 1 has mined a block and connected to node 2, node 2 has mined a block
\* that node 1 took, node 1 has mined eight more, and node 1 has nine transactions
\* pending
FullAdopted ==
    Created(Mined(Mined(connect(Mined(NewWorld, 1, 1, 0), 1, 2, FirstOrder), 2, 1, 1),
                  1, NUM_OF_MEMPOOL_TXS_PER_BLOCK - 1, 2),
            1, 2, NUM_OF_MEMPOOL_TXS_PER_BLOCK)
InitFull ==
    /\ \E W \in {FullAlone, FullAdopted} :
           /\ state = W.state
           /\ connections = W.connections
           /\ id_to_transaction = W.id_to_transaction
    /\ rnd = NUM_OF_MEMPOOL_TXS_PER_BLOCK + 1
    /\ calls = 0
    /\ limit = MaxFullCalls
    /\ last = Idle
SpecFull == InitFull /\ [][Next]_vars

(***************************************************************************)
(* A sender whose branch ends in a block the receiver refuses.  Node 1     *)
(* mines a block that node 2 takes, pays node 2 while connected, and       *)
(* disconnects; node 1 then clears its mempool, mines valid blocks, takes  *)
(* the payment back into its mempool and mines it, while node 2 still has  *)
(* the payment pending: node 2 refuses that last block.  Meanwhile node 2  *)
(* may have taken blocks that node 3 mined on the shared one.              *)
(***************************************************************************)
MaxBranchCalls == 2
\* the most valid blocks node 1 mines before the refused one
MaxValidLen == 2
\* the most blocks node 3 mines, and node 2 takes, after the disconnection
MaxOwnLen == 2
InitBranch ==
    /\ \E valid \in 1..MaxValidLen, own \in 0..MaxOwnLen :
       \* node 1 and node 2 share one block and the payment pends at both
       \E W1 \in {connect(Mined(NewWorld, 1, 1, 0), 1, 2, FirstOrder)} :
       \E coin \in _get_unspent_owned_transaction(W1, 1) :
       \E W2 \in {create_transaction(W1, 1, 2, coin, FirstOrder).world} :
       \E W3 \in {clear_mempool(disconnect_from(W2, 1, 2), 1)} :
       \* node 1 mines the valid blocks, then the payment
       \E W4 \in {Mined(W3, 1, valid, 1)} :
       \E W5 \in {add_transaction_to_mempool(W4, 1, W4.state[2].mempool[1], FirstOrder)} :
       \E W6 \in {Mined(W5, 1, 1, 1 + valid)} :
       \* node 3 mines on the shared block
       \E W7 \in {IF own = 0 THEN W6 ELSE connect(W6, 3, 2, FirstOrder)} :
       \E W \in {Mined(W7, 3, own, 2 + valid)} :
           /\ state = W.state
           /\ connections = W.connections
           /\ id_to_transaction = W.id_to_transaction
    /\ rnd = 2 + MaxValidLen + MaxOwnLen
    /\ calls = 0
    /\ limit = MaxBranchCalls
    /\ last = Idle
SpecBranch == InitBranch /\ [][NextDirect]_vars

(***************************************************************************)
(* A node whose state was replaced by a copy.  Node 1 mines a block,       *)
(* connects to node 2 and takes the block node 2 mines, then pays node 2   *)
(* with its coin; the payment pends at both.                               *)
(***************************************************************************)
MaxAdoptedCalls == 3
InitAdopted ==
    /\ \E W1 \in {connect(Mined(NewWorld, 1, 1, 0), 1, 2, FirstOrder)} :
       \E W2 \in {Mined(W1, 2, 1, 1)} :
       \E W \in {Created(W2, 1, 2, 1)} :
           /\ state = W.state
           /\ connections = W.connections
           /\ id_to_transaction = W.id_to_transaction
    /\ rnd = 2
    /\ calls = 0
    /\ limit = MaxAdoptedCalls
    /\ last = Idle
SpecAdopted == InitAdopted /\ [][Next]_vars

(***************************************************************************)
(* Gossip in steps.  mine_block and connect are taken one peer call at a   *)
(* time: the call begins with what the node does itself, then each         *)
(* get_introduced_to_new_block is a step, and the call returns when no     *)
(* call is left.  pending is the stack of the loops under way, the         *)
(* innermost last; a loop is the list of the <<sender, receiver>> calls it *)
(* has still to make.  made counts the peer calls made so far.             *)
(***************************************************************************)
MaxGossipCalls == 5

\* the calls of "for node in self._connections" in _publish_latest_block of self
PublishLoop(W, self, ord) ==
    LET peers == PeersInOrder(W.connections[self], ord)
    IN  IF peers = <<>> THEN <<>>
        ELSE <<[i \in DOMAIN peers |-> <<self, peers[i]>>]>>

\* a method of self run up to its calls of peers: run with no peer to call, W1 is
\* the world it leaves, put back among the peers of W
Alone(W, self) == [W EXCEPT !.connections[self] = {}]
Rejoined(W1, W) == [W1 EXCEPT !.connections = W.connections]

\* get_introduced_to_new_block, were the latest block published whatever the call did
AdoptsAlways(W, W1, self) == TRUE
\* "if len(self._state.blockchain) < len(new_state.blockchain)": self, in W before
\* the call, has assigned new_state, W1, and goes on to _publish_latest_block
Adopts(W, W1, self) ==
    Len(W.state[self].blockchain) < Len(W1.state[self].blockchain)

Calling(op, node, arg, ret, raised, ord, pending) ==
    [op |-> op, node |-> node, arg |-> arg, ret |-> ret, raised |-> raised,
     log |-> <<>>,
     pre |-> [state |-> state, connections |-> connections,
              id_to_transaction |-> id_to_transaction],
     ord |-> ord, pending |-> pending, made |-> 0]
InGossip == last.op \in {"mine_block", "connect"}
\* a peer call is left to make; none is
CallLeft == InGossip /\ last.pending # <<>>
NoCallLeft == InGossip /\ last.pending = <<>>

\* mine_block up to _publish_latest_block
MineBlockBegins(self) ==
    /\ CanCall(<<self>>)
    /\ \E ord \in LoopOrders(connections) :
       \E r \in {mine_block(Alone(World, self), self, rnd + 1, ord)} :
       \E W1 \in {Rejoined(r.world, World)} :
           /\ state' = W1.state
           /\ id_to_transaction' = W1.id_to_transaction
           /\ last' = Calling("mine_block", self, <<>>, <<r.ret>>, "", ord,
                              PublishLoop(W1, self, ord))
    /\ rnd' = rnd + 1
    /\ calls' = calls + 1
    /\ UNCHANGED <<connections, limit>>

\* connect up to the two introductions: self._connections.add(other), and in
\* other.connect(self) the same of other, whose call of self.connect(other) bounces;
\* then other introduces its latest block to self, and self its own to other
ConnectBegins(self, other) ==
    /\ CanCall(<<self, other>>)
    /\ \E ord \in LoopOrders([connections EXCEPT ![self] = @ \cup {other},
                                                 ![other] = @ \cup {self}]) :
           IF get_address(other) = get_address(self)
           THEN /\ last' = Calling("connect", self, <<other>>, <<>>, "ValueError", ord, <<>>)
                /\ UNCHANGED <<connections, calls>>
           ELSE IF other \in connections[self]
           THEN /\ last' = Calling("connect", self, <<other>>, <<>>, "", ord, <<>>)
                /\ UNCHANGED <<connections, calls>>
           ELSE /\ connections' = [connections EXCEPT ![self] = @ \cup {other},
                                                      ![other] = @ \cup {self}]
                /\ last' = Calling("connect", self, <<other>>, <<>>, "", ord,
                                   <<(IF self \in connections[other] THEN <<>>
                                      ELSE <<<<other, self>>>>) \o <<<<self, other>>>>>>)
                /\ calls' = calls + 1
    /\ UNCHANGED <<state, id_to_transaction, rnd, limit>>

\* the next peer call: the receiver runs get_introduced_to_new_block with the
\* sender's latest hash, and its own loop is under way next if it adopts
GossipStep ==
    /\ CallLeft
    /\ LET loop == last.pending[Len(last.pending)]
           sender == Head(loop)[1]
           self == Head(loop)[2]
           outer == SubSeq(last.pending, 1, Len(last.pending) - 1)
           left == IF Tail(loop) = <<>> THEN outer ELSE Append(outer, Tail(loop))
       IN  \E W1 \in {Rejoined(get_introduced_to_new_block(
                                   Alone(World, self), self,
                                   get_latest_hash(World, sender), sender, last.ord),
                               World)} :
               /\ state' = W1.state
               /\ id_to_transaction' = W1.id_to_transaction
               /\ last' = [last EXCEPT
                              !.raised = W1.raised,
                              !.made = @ + 1,
                              !.pending = IF W1.raised # "" THEN <<>>
                                          ELSE IF Adopts(World, W1, self)
                                          THEN left \o PublishLoop(W1, self, last.ord)
                                          ELSE left]
    /\ UNCHANGED <<connections, rnd, calls, limit>>

\* no call is left: mine_block, or connect, returns
GossipReturns ==
    /\ NoCallLeft
    /\ last' = Idle
    /\ UNCHANGED <<state, connections, id_to_transaction, rnd, calls, limit>>

InitGossip == Constructed /\ limit = MaxGossipCalls
NextGossip ==
    \/ \E self \in Nodes : MineBlockBegins(self)
    \/ \E self \in Nodes, other \in Nodes : ConnectBegins(self, other)
    \/ GossipStep
    \/ GossipReturns
\* a call under way goes on, the calls being synchronous: weak fairness of GossipStep
\* and of GossipReturns.  Either changes last whenever its guard holds, so that
\* ENABLED <<GossipStep>>_vars is CallLeft and ENABLED <<GossipReturns>>_vars is
\* NoCallLeft, and WF_vars(A) is written []<>(~ENABLED <<A>>_vars) \/ []<><<A>>_vars
SpecGossip ==
    /\ InitGossip /\ [][NextGossip]_vars
    /\ []<>(~CallLeft) \/ []<><<GossipStep>>_vars
    /\ []<>(~NoCallLeft) \/ []<><<GossipReturns>>_vars

(***************************************************************************)
(* Transaction gossip in steps.  create_transaction and                    *)
(* add_transaction_to_mempool begin with what the node does itself; then   *)
(* each turn of a "for node in self._connections" loop of                  *)
(* _publish_new_transaction is a step.  The coins to spend are mined       *)
(* before the first of these calls, and nodes connect by whole calls.      *)
(***************************************************************************)
MaxTxGossipCalls == 3

InTxGossip == last.op \in {"create_transaction", "add_transaction_to_mempool"}
\* a turn of a loop is left to take; none is
TurnLeft == InTxGossip /\ last.pending # <<>>
NoTurnLeft == InTxGossip /\ last.pending = <<>>
\* the call under way has put a transaction in the mempool of its node
Spreads == InTxGossip /\ last.ret # <<>>
\* the transaction gossiped by the call under way
Gossiped == last.ret[1]

\* "if transaction_id not in connection_known_txs"
Unknown(W, node, transaction) ==
    LET mempool == get_mempool(W, node)
    IN  ~InList(get_id(transaction), [i \in DOMAIN mempool |-> get_id(mempool[i])])
\* add_transaction_to_mempool, were a refused transaction notified to the peers too
AdmitsAlways(W, self, transaction) == TRUE
\* "if not is_valid_transaction: return False": self goes on to
\* _add_new_transaction_to_mempool
Admits(W, self, transaction) ==
    validate_transaction_pre_mempool_access(
        transaction, W.state[self], W.id_to_transaction[self])

\* create_transaction up to _publish_new_transaction
CreateTransactionBegins(self, target_public_key) ==
    /\ CanCall(<<self, target_public_key>>)
    /\ LET available == _get_unspent_owned_transaction(World, self)
       IN  IF available = {}
           THEN /\ last' = Calling("create_transaction", self, <<target_public_key>>,
                                   <<>>, "", <<>>, <<>>)
                /\ UNCHANGED <<state, id_to_transaction, calls>>
           ELSE \E unspent_transaction \in available, ord \in LoopOrders(connections) :
                \E r \in {create_transaction(Alone(World, self), self, target_public_key,
                                             unspent_transaction, ord)} :
                \E W1 \in {Rejoined(r.world, World)} :
                    /\ state' = W1.state
                    /\ id_to_transaction' = W1.id_to_transaction
                    /\ last' = Calling("create_transaction", self, <<target_public_key>>,
                                       r.ret, "", ord, PublishLoop(W1, self, ord))
                    /\ calls' = calls + 1
    /\ UNCHANGED <<connections, rnd, limit>>

\* add_transaction_to_mempool, called by a user, up to _publish_new_transaction;
\* ret is the transaction admitted, for True, and empty for False
AddTransactionToMempoolBegins(self, transaction) ==
    /\ CanCall(<<self, transaction.output>>)
    /\ IF ~Admits(World, self, transaction)
       THEN /\ last' = Calling("add_transaction_to_mempool", self, <<transaction>>,
                               <<>>, "", <<>>, <<>>)
            /\ UNCHANGED <<state, id_to_transaction, calls>>
       ELSE \E ord \in LoopOrders(connections) :
            \E W1 \in {Rejoined(add_transaction_to_mempool(Alone(World, self), self,
                                                           transaction, ord),
                                World)} :
                /\ state' = W1.state
                /\ id_to_transaction' = W1.id_to_transaction
                /\ last' = Calling("add_transaction_to_mempool", self, <<transaction>>,
                                   <<transaction>>, "", ord,
                                   PublishLoop(W1, self, ord))
                /\ calls' = calls + 1
    /\ UNCHANGED <<connections, rnd, limit>>

\* the next turn of the innermost loop: a peer whose mempool holds the identifier
\* is passed over; another is called, and its own loop is under way next if it
\* admits the transaction
TxGossipStep ==
    /\ TurnLeft
    /\ LET loop == last.pending[Len(last.pending)]
           self == Head(loop)[2]
           outer == SubSeq(last.pending, 1, Len(last.pending) - 1)
           left == IF Tail(loop) = <<>> THEN outer ELSE Append(outer, Tail(loop))
       IN  IF ~Unknown(World, self, Gossiped)
           THEN /\ last' = [last EXCEPT !.pending = left]
                /\ UNCHANGED <<state, id_to_transaction>>
           ELSE \E W1 \in {Rejoined(add_transaction_to_mempool(
                                        Alone(World, self), self, Gossiped, last.ord),
                                    World)} :
                    /\ state' = W1.state
                    /\ id_to_transaction' = W1.id_to_transaction
                    /\ last' = [last EXCEPT
                                   !.raised = W1.raised,
                                   !.made = @ + 1,
                                   !.pending = IF W1.raised # "" THEN <<>>
                                               ELSE IF Admits(World, self, Gossiped)
                                               THEN left \o PublishLoop(W1, self, last.ord)
                                               ELSE left]
    /\ UNCHANGED <<connections, rnd, calls, limit>>

\* no turn is left: create_transaction, or add_transaction_to_mempool, returns
TxGossipReturns ==
    /\ NoTurnLeft
    /\ last' = Idle
    /\ UNCHANGED <<state, connections, id_to_transaction, rnd, calls, limit>>

\* the caller has inspected a whole call, of connect
WholeCallInspected == ~InTxGossip /\ Return

\* the world left by the calls connect(n, m) of new nodes, one for each pair of links
RECURSIVE Linked(_, _)
Linked(W, links) ==
    IF links = {} THEN W
    ELSE LET link == CHOOSE l \in links : TRUE
             n == CHOOSE n \in link : \A m \in link : n <= m
             m == CHOOSE m \in link : m # n
         IN  Linked(connect(W, n, m, FirstOrder), links \ {link})
\* the world left by one call n.mine_block() of each node n of miners, lowest first
RECURSIVE Seeded(_, _, _)
Seeded(W, miners, k) ==
    IF miners = {} THEN W
    ELSE LET n == CHOOSE n \in miners : \A m \in miners : n <= m
         IN  Seeded(Mined(W, n, 1, k), miners \ {n}, k + 1)
\* the peer graphs of three nodes, nodes being alike but for their names: no link,
\* one link, a line and a ring
PeerGraphs == {{}, {{1, 2}}, {{1, 2}, {2, 3}}, {{1, 2}, {2, 3}, {1, 3}}}
\* some nodes have mined a block each, with no peer, and the nodes are then
\* connected in any peer graph
InitTxGossip ==
    /\ \E miners \in SUBSET Nodes, links \in PeerGraphs :
           /\ \E W0 \in {Seeded(NewWorld, miners, 0)} :
              \E W \in {Linked(W0, links)} :
                  /\ state = W.state
                  /\ connections = W.connections
                  /\ id_to_transaction = W.id_to_transaction
           /\ rnd = Cardinality(miners)
    /\ calls = 0
    /\ limit = MaxTxGossipCalls
    /\ last = Idle
NextTxGossip ==
    \/ \E self \in Nodes, other \in Nodes : Connect(self, other)
    \/ WholeCallInspected
    \/ \E self \in Nodes, target \in Nodes : CreateTransactionBegins(self, target)
    \/ \E self \in Nodes : \E transaction \in LiveObjects(World) :
           AddTransactionToMempoolBegins(self, transaction)
    \/ TxGossipStep
    \/ TxGossipReturns
\* a call under way goes on: weak fairness of TxGossipStep and of TxGossipReturns,
\* written with TurnLeft and NoTurnLeft for their ENABLED, as in SpecGossip
SpecTxGossip ==
    /\ InitTxGossip /\ [][NextTxGossip]_vars
    /\ []<>(~TurnLeft) \/ []<><<TxGossipStep>>_vars
    /\ []<>(~NoTurnLeft) \/ []<><<TxGossipReturns>>_vars

(***************************************************************************)
(* Blocks offered by a sender that need not be honest: the sender answers  *)
(* get_block(block_hash) with a block of its own making, whose             *)
(* prev_block_hash is the latest hash of the receiver.                     *)
(***************************************************************************)
MaxOfferedCalls == 3

\* get_introduced_to_new_block(block_hash, sender) of self when sender.get_block
\* answers block: _find_forking_point stops at block.prev_block_hash, a hash of
\* self's chain, with the branch [block] and the hashes [block_hash]
get_introduced_to_offered_block(W, self, block, block_hash, ord) ==
    LET curr_hash_chain == _get_blockchain_hashes(W, self)
    IN  IF InList(block_hash, curr_hash_chain) THEN W
        ELSE
        LET fork_data == ForkData(block.prev_block_hash, <<block>>, <<block_hash>>)
            potential_new_chain_len ==
                get_potential_forked_chain_len(fork_data, curr_hash_chain)
        IN  IF potential_new_chain_len <= Len(curr_hash_chain) THEN W
            ELSE
            LET F == _reorg_blockchain(W, self, fork_data)
                new_state == F.state
                W1 == [W EXCEPT !.id_to_transaction[self] = F.id_to_tx]
            IN  IF F.raised # "" THEN [W EXCEPT !.raised = F.raised]
                ELSE IF Len(W.state[self].blockchain) < Len(new_state.blockchain)
                THEN _publish_latest_block([W1 EXCEPT !.state[self] = new_state],
                                           self, ord)
                ELSE W1

\* a new transaction object with these fields
Made(output, input, signature) ==
    LET transaction == Transaction(output, input, signature, 0)
    IN  [transaction EXCEPT !.oid = NewOid(World, transaction)]
\* the transactions a sender may put in a block for self: two coinbases, the
\* payments of a coin of self's utxo to a node, signed by the coin's owner, and the
\* payments of the output of one of those, signed by its owner
OfferedCoinbases == {Made(get_address(n), None, token_bytes(rnd + 1)) : n \in Nodes}
OfferedSpends(self) ==
    {Made(get_address(target), get_id(coin), sign(<<get_id(coin), get_address(target)>>, coin.output)) :
        coin \in SeqToSet(state[self].utxo), target \in Nodes}
Chained(t) == Made(t.output, get_id(t), sign(<<get_id(t), t.output>>, t.output))
\* ten references to one transaction
TenTimes(t) == [i \in 1..BLOCK_SIZE |-> t]
\* the lists of transactions of the blocks offered: a coinbase alone or with a
\* payment; two payments of one coin; a payment and one of its output, in either
\* order; a payment of the coinbase's output; no coinbase; two coinbases; eleven
\* transactions; a coinbase that self's utxo holds
OfferedTransactionLists(self) ==
    LET coinbase == CHOOSE c \in OfferedCoinbases : c.output = get_address(self)
        spends == OfferedSpends(self)
    IN  {<<coinbase>>, <<>>, <<coinbase, Chained(coinbase)>>}
        \cup {<<t>> : t \in {u \in SeqToSet(state[self].utxo) : is_coinbase(u)}}
        \cup {<<c1, c2>> : c1 \in {coinbase}, c2 \in OfferedCoinbases \ {coinbase}}
        \cup UNION {{<<coinbase, s>>, <<s>>, <<coinbase, s, Chained(s)>>,
                     <<coinbase, Chained(s), s>>, <<coinbase>> \o TenTimes(s)} :
                       s \in spends}
        \cup UNION {{<<coinbase, s1, s2>> :
                         s2 \in {s \in spends : s.input = s1.input /\ s # s1}} :
                       s1 \in spends}
OfferedBlocks(self) ==
    {Block(get_latest_hash(World, self), transactions) :
         transactions \in OfferedTransactionLists(self)}
\* the hash the block is requested under: its own, or another
OfferedHashes(block) == {get_hash(block), JunkHash}

GetIntroducedToOfferedBlock(self, block, block_hash) ==
    /\ CanCall(<<self>>)
    /\ \E ord \in LoopOrders(connections) :
           Returns("get_introduced_to_offered_block", self, <<block_hash, block>>, <<>>,
                   get_introduced_to_offered_block(World, self, block, block_hash, ord))
    /\ rnd' = IF state' # state THEN rnd + 1 ELSE rnd

\* roll-forward of block on the state of self, and rollback of the block if it
\* was taken: the value returned by _validate_block_and_update_state and the
\* frame that _rollback_latest_block leaves.  The node is left as it was.
RollForwardAndBack(self, block) ==
    /\ CanCall(<<self>>)
    /\ \E r \in {_validate_block_and_update_state(
                     Frame(state[self], id_to_transaction[self], ""),
                     block, get_hash(block))} :
           Returns("roll_forward_and_back", self, <<block>>,
                   IF r.ret = "False" THEN <<r.ret>>
                   ELSE <<r.ret, _rollback_latest_block(r.frame).frame>>,
                   World)
    /\ UNCHANGED rnd

InitOffered == Constructed /\ limit = MaxOfferedCalls
NextOffered ==
    \/ \E self \in Nodes, other \in Nodes : Connect(self, other)
    \/ \E self \in Nodes : MineBlock(self)
    \/ \E self \in Nodes, target \in Nodes : CreateTransaction(self, target)
    \/ \E self \in Nodes : \E block \in OfferedBlocks(self) :
           \E block_hash \in OfferedHashes(block) :
               GetIntroducedToOfferedBlock(self, block, block_hash)
    \/ \E self \in Nodes : \E block \in OfferedBlocks(self) :
           RollForwardAndBack(self, block)
    \/ Return
SpecOffered == InitOffered /\ [][NextOffered]_vars

(***************************************************************************)
(* The claims.  A state in which last.op names a call is the state that    *)
(* call returned in; last.pre is the world it was made in.                 *)
(***************************************************************************)
Before ==
    [state |-> last.pre.state, connections |-> last.pre.connections,
     id_to_transaction |-> last.pre.id_to_transaction, log |-> <<>>, raised |-> ""]
UtxoIds(W, n) == {get_id(t) : t \in SeqToSet(get_utxo(W, n))}
MempoolIds(W, n) == {get_id(t) : t \in SeqToSet(get_mempool(W, n))}
SameChain(W, a, b) == _get_blockchain_hashes(W, a) = _get_blockchain_hashes(W, b)
\* the block mine_block has just appended to the miner's chain
MinedBlock == state[last.node].blockchain[Len(state[last.node].blockchain)]
\* every block of the chain is accepted, in turn, by a node that holds nothing
RECURSIVE ValidFrom(_, _)
ValidFrom(F, blockchain) ==
    \/ blockchain = <<>>
    \/ LET r == _validate_block_and_update_state(F, Head(blockchain),
                                                 get_hash(Head(blockchain)))
       IN  r.ret # "False" /\ ValidFrom(r.frame, Tail(blockchain))
ValidChain(blockchain) == ValidFrom(Frame(NodeState(<<>>, <<>>, <<>>), <<>>, ""), blockchain)
\* the number of leading blocks two chains share
RECURSIVE CommonPrefixLen(_, _)
CommonPrefixLen(xs, ys) ==
    IF xs = <<>> \/ ys = <<>> \/ get_hash(Head(xs)) # get_hash(Head(ys)) THEN 0
    ELSE 1 + CommonPrefixLen(Tail(xs), Tail(ys))

\* C1: single-block propagation.  For connected nodes A and B whose chains are
\* identical, whatever their mempools hold, after A.mine_block() returns h both
\* A.get_latest_hash() and B.get_latest_hash() equal h.
C1_SingleBlockPropagation ==
    last.op = "mine_block" =>
        \A B \in Before.connections[last.node] :
            SameChain(Before, last.node, B) =>
                /\ get_latest_hash(World, last.node) = last.ret[1]
                /\ get_latest_hash(World, B) = last.ret[1]

\* C2: reorg to a strictly longer valid branch.  When B, of chain length m, is
\* introduced by A to A's tip, A's chain being valid, of length n > m and leaving
\* B's chain by a branch of two or more blocks, then afterwards B's latest hash
\* is A's and B's utxo set is A's.
C2_ReorgToLongerBranch ==
    last.op = "get_introduced_to_new_block" =>
        LET B == last.node
            A == last.arg[2]
            chainA == Before.state[A].blockchain
            chainB == Before.state[B].blockchain
        IN  (/\ A # B
             /\ last.arg[1] = get_latest_hash(Before, A)
             /\ ValidChain(chainA)
             /\ Len(chainA) > Len(chainB)
             /\ Len(chainA) - CommonPrefixLen(chainA, chainB) >= 2)
            => /\ get_latest_hash(World, B) = get_latest_hash(World, A)
               /\ UtxoIds(World, B) = UtxoIds(World, A)

\* C3: a pending transaction leaves the mempool by inclusion in an accepted
\* block.  When T is in the mempool of both of the connected nodes A and B, of
\* identical chains, and A mines a block containing T, then after the call B's
\* chain contains that block, T's input is not in B's utxo set, T is in B's utxo
\* set and T is not in B's mempool.
C3_IncludedLeavesMempool ==
    last.op = "mine_block" =>
        \A B \in Before.connections[last.node] :
            \A T \in SeqToSet(get_mempool(Before, last.node)) :
                (/\ SameChain(Before, last.node, B)
                 /\ get_id(T) \in MempoolIds(Before, B)
                 /\ InList(T, MinedBlock.transactions))
                => /\ get_block(World, B, last.ret[1]) # <<>>
                   /\ T.input \notin UtxoIds(World, B)
                   /\ get_id(T) \in UtxoIds(World, B)
                   /\ get_id(T) \notin MempoolIds(World, B)

\* C4: multi-hop propagation.  In a peer graph A-B-C (A connected to B, B to C,
\* A not to C) where the three chains are identical, after A.mine_block()
\* returns h, C.get_latest_hash() is h.
C4_MultiHopPropagation ==
    last.op = "mine_block" =>
        \A B \in Nodes, C \in Nodes :
            (/\ C # last.node
             /\ B \in Before.connections[last.node]
             /\ C \in Before.connections[B]
             /\ C \notin Before.connections[last.node]
             /\ SameChain(Before, last.node, B)
             /\ SameChain(Before, last.node, C))
            => get_latest_hash(World, C) = last.ret[1]

\* C5: ties keep the incumbent.  When get_introduced_to_new_block is called with
\* a block whose branch gives a potential length (fork index + 1 + branch length,
\* against the hash list that starts with the genesis hash) not above the length
\* of that list, the node's chain, utxo and mempool are unchanged and no peer is
\* called; and when two nodes of different chains of equal length connect, both
\* keep their chain.
C5_TiesKeepIncumbent ==
    /\ last.op = "get_introduced_to_new_block" =>
           LET self == last.node
               curr_hash_chain == _get_blockchain_hashes(Before, self)
               found == _find_forking_point(Before, self, last.arg[1], last.arg[2])
               fork_index == IndexOf(curr_hash_chain, found.fork_data.fork_block_hash)
           IN  (/\ found.raised = ""
                /\ fork_index + 1 + Len(found.fork_data.new_branch) <= Len(curr_hash_chain))
               => /\ state[self] = Before.state[self]
                  /\ last.log = <<>>
    /\ last.op = "connect" =>
           LET self == last.node
               other == last.arg[1]
           IN  (/\ Len(Before.state[self].blockchain) = Len(Before.state[other].blockchain)
                /\ ~SameChain(Before, self, other))
               => /\ state[self] = Before.state[self]
                  /\ state[other] = Before.state[other]
\* two nodes that mined a block each have connected
C5_Witness ==
    /\ last.op = "connect"
    /\ last.arg[1] \in connections[last.node]
    /\ last.arg[1] \notin Before.connections[last.node]
    /\ Len(Before.state[last.node].blockchain) = Len(Before.state[last.arg[1]].blockchain)
    /\ ~SameChain(Before, last.node, last.arg[1])
    /\ state[last.node] = Before.state[last.node]

\* the identifiers of the chain's transactions that no later transaction of the
\* chain has as its input
UnspentChainIds(blockchain) ==
    LET txs == ChainTxs(blockchain)
    IN  {get_id(txs[i]) : i \in {i \in DOMAIN txs :
                                    \A j \in (i + 1)..Len(txs) : txs[j].input # get_id(txs[i])}}

\* C6: in every reachable state of every node the utxo set is exactly the set of
\* the transactions of the node's chain whose identifier is not the input of a
\* later transaction of that chain.
C6_UtxoIsUnspentChain ==
    \A n \in Nodes : UtxoIds(World, n) = UnspentChainIds(state[n].blockchain)
\* a node has taken from a peer a block that spends a coin of its chain
C6_Witness ==
    /\ last.op = "mine_block"
    /\ \E n \in Nodes \ {last.node} :
           /\ get_latest_hash(World, n) = last.ret[1]
           /\ \E i \in DOMAIN MinedBlock.transactions :
                  /\ ~is_coinbase(MinedBlock.transactions[i])
                  /\ MinedBlock.transactions[i].input \notin UtxoIds(World, n)
                  /\ MinedBlock.transactions[i].input \in UtxoIds(Before, n)

\* C7: in every reachable state of every node each block after the first has
\* prev_block_hash equal to the hash of the block before it, and the first has
\* the genesis value.
C7_ChainIsLinked ==
    \A n \in Nodes :
        \A i \in DOMAIN state[n].blockchain :
            state[n].blockchain[i].prev_block_hash =
                IF i = 1 THEN GENESIS_BLOCK_PREV ELSE get_hash(state[n].blockchain[i - 1])
\* a node holding a block has put a peer's block on it
C7_Witness ==
    /\ last.op = "mine_block"
    /\ \E n \in Nodes \ {last.node} :
           /\ Len(state[n].blockchain) >= 2
           /\ Len(state[n].blockchain) > Len(Before.state[n].blockchain)
           /\ get_latest_hash(World, n) = last.ret[1]

\* C8: in every reachable state of every node no two mempool entries have the
\* same input, and no mempool entry is a coinbase.
C8_MempoolInputsDiffer ==
    \A n \in Nodes :
        LET mempool == state[n].mempool
        IN  /\ \A i \in DOMAIN mempool, j \in DOMAIN mempool :
                   i # j => mempool[i].input # mempool[j].input
            /\ \A i \in DOMAIN mempool : ~is_coinbase(mempool[i])

C10_AdmissionConditions ==
    last.op = "add_transaction_to_mempool" =>
        LET tx == last.arg[1]
            n == last.node
            dict == Before.id_to_transaction[n]
            has_input == tx.input # None /\ ByteLen(tx.input) = 32
            is_known == tx.input \in DOMAIN dict
            is_signed == /\ tx.signature.by = dict[tx.input].output
                         /\ tx.signature.msg = <<tx.input, tx.output>>
            is_unspent == \E t \in SeqToSet(get_utxo(Before, n)) : get_id(t) = tx.input
            is_pending == \E t \in SeqToSet(get_mempool(Before, n)) : t.input = tx.input
            admitted == has_input /\ is_known /\ is_signed /\ is_unspent /\ ~is_pending
        IN  /\ last.raised = ""
            /\ last.ret = <<admitted>>
            /\ admitted => InList(tx, state[n].mempool)
            /\ ~admitted => state = Before.state

\* C11: when add_transaction_to_mempool returns false, the chain, utxo, mempool
\* and dict of every node are as before the call, and no peer's
\* add_transaction_to_mempool is called.
C11_RefusalChangesNothing ==
    (last.op = "add_transaction_to_mempool" /\ last.ret = <<FALSE>>) =>
        /\ state = Before.state
        /\ id_to_transaction = Before.id_to_transaction
        /\ connections = Before.connections
        /\ last.log = <<>>
\* a node that has peers has refused a transaction of 32 byte input
C11_Witness ==
    /\ last.op = "add_transaction_to_mempool"
    /\ last.ret = <<FALSE>>
    /\ connections[last.node] # {}
    /\ last.arg[1].input # None
    /\ ByteLen(last.arg[1].input) = SHA256_DIGEST_LEN

\* the five conditions of admission, of transaction tx at node n in world W
FiveConditions(W, n, tx) ==
    /\ tx.input # None
    /\ ByteLen(tx.input) = 32
    /\ tx.input \in DOMAIN W.id_to_transaction[n]
    /\ tx.signature.by = W.id_to_transaction[n][tx.input].output
    /\ tx.signature.msg = <<tx.input, tx.output>>
    /\ \E t \in SeqToSet(get_utxo(W, n)) : get_id(t) = tx.input
    /\ \A t \in SeqToSet(get_mempool(W, n)) : t.input # tx.input
\* the nodes reached from those of S through peers that admit tx
RECURSIVE AdmittingFrom(_, _, _)
AdmittingFrom(W, S, tx) ==
    LET more == {p \in Nodes \ S : FiveConditions(W, p, tx) /\ \E q \in S : p \in W.connections[q]}
    IN  IF more = {} THEN S ELSE AdmittingFrom(W, S \cup more, tx)
\* the number of calls of add_transaction_to_mempool made on peer p
TimesOffered(p) == Cardinality({i \in DOMAIN last.log : last.log[i].to = p})

\* C12: after add_transaction_to_mempool(tx) returns true on A, tx is in A's
\* mempool and dict, and in the mempool of every node reached from A through
\* peers on each of which the five conditions held for tx; a node whose mempool
\* holds tx's identifier is not called: A never, a node that held it before
\* never, a node that admits it once.
C12_AdmittedIsGossiped ==
    (last.op = "add_transaction_to_mempool" /\ last.ret = <<TRUE>>) =>
        LET A == last.node
            tx == last.arg[1]
        IN  /\ InList(tx, state[A].mempool)
            /\ get_id(tx) \in DOMAIN id_to_transaction[A]
            /\ id_to_transaction[A][get_id(tx)] = tx
            /\ \A n \in AdmittingFrom(Before, {A}, tx) : get_id(tx) \in MempoolIds(World, n)
            /\ TimesOffered(A) = 0
            /\ \A p \in Nodes \ {A} :
                   /\ get_id(tx) \in MempoolIds(Before, p) => TimesOffered(p) = 0
                   /\ FiveConditions(Before, p, tx) => TimesOffered(p) <= 1
\* a transaction admitted by A has reached, through a peer, a node that is no
\* peer of A
C12_Witness ==
    /\ last.op = "add_transaction_to_mempool"
    /\ last.ret = <<TRUE>>
    /\ \E n \in Nodes \ ({last.node} \cup connections[last.node]) :
           /\ get_id(last.arg[1]) \in MempoolIds(World, n)
           /\ get_id(last.arg[1]) \notin MempoolIds(Before, n)

\* the utxo entries of node n, in world W, that pay n and that no entry of n's
\* mempool has as its input
FreeCoins(W, n) ==
    {t \in SeqToSet(get_utxo(W, n)) :
        /\ t.output = get_address(n)
        /\ \A p \in SeqToSet(get_mempool(W, n)) : p.input # get_id(t)}

\* C13: create_transaction(target) returns None, and changes nothing, if and
\* only if every utxo entry the node owns is the input of an entry of its
\* mempool; otherwise it returns a transaction whose input is the identifier of
\* an owned utxo entry that no mempool entry has as input, whose output is
\* target, whose signature verifies against the owner of the input, and which is
\* in the node's mempool on return.
C13_CreateSpendsFreeCoin ==
    last.op = "create_transaction" =>
        LET self == last.node
            free == FreeCoins(Before, self)
        IN  /\ last.raised = ""
            /\ (last.ret = <<>>) <=> (free = {})
            /\ last.ret = <<>> =>
                   /\ state = Before.state
                   /\ id_to_transaction = Before.id_to_transaction
            /\ last.ret # <<>> =>
                   LET tx == last.ret[1]
                   IN  /\ tx.input \in {get_id(t) : t \in free}
                       /\ tx.output = last.arg[1]
                       /\ verify(<<tx.input, tx.output>>, tx.signature, get_address(self))
                       /\ InList(tx, state[self].mempool)

\* C14: mine_block builds a block whose prev_block_hash is the node's latest
\* hash before the call and whose transactions are a new coinbase paying the
\* miner, then the first min(9, |mempool|) mempool entries in order; on return
\* the latest hash is the hash returned, get_block of it returns that block, and
\* the mempool is the entries after those included, in their order.
C14_MineTakesMempoolPrefix ==
    last.op = "mine_block" =>
        LET self == last.node
            mempool == get_mempool(Before, self)
            taken == IF Len(mempool) < 9 THEN Len(mempool) ELSE 9
            got == get_block(World, self, last.ret[1])
        IN  /\ last.raised = ""
            /\ get_latest_hash(World, self) = last.ret[1]
            /\ got # <<>>
            /\ got[1].prev_block_hash = get_latest_hash(Before, self)
            /\ Len(got[1].transactions) = 1 + taken
            /\ is_coinbase(got[1].transactions[1])
            /\ got[1].transactions[1].output = get_address(self)
            /\ get_id(got[1].transactions[1]) \notin DOMAIN Before.id_to_transaction[self]
            /\ \A i \in 1..taken : got[1].transactions[i + 1] = mempool[i]
            /\ get_mempool(World, self) = SubSeq(mempool, taken + 1, Len(mempool))

\* the number of leading blocks of a branch that _validate_block_and_update_state
\* accepts, each on the state the one before it left
RECURSIVE ValidCount(_, _, _)
ValidCount(F, branch, branch_hashes) ==
    IF branch = <<>> THEN 0
    ELSE LET r == _validate_block_and_update_state(F, Head(branch), Head(branch_hashes))
         IN  IF r.ret = "False" THEN 0
             ELSE 1 + ValidCount(r.frame, Tail(branch), Tail(branch_hashes))
\* C15: truncated reorg.  When the branch a sender offers is k >= 1 valid blocks
\* followed by an invalid one, the node adopts its chain up to the fork point
\* plus exactly those k blocks if fork index + k exceeds its chain length, and
\* keeps its state otherwise.
C15_TruncatedReorg ==
    last.op = "get_introduced_to_new_block" =>
        LET self == last.node
            chain == Before.state[self].blockchain
            found == _find_forking_point(Before, self, last.arg[1], last.arg[2])
            fork_data == found.fork_data
            F0 == Frame(copy(Before, Before.state[self]), Before.id_to_transaction[self], "")
            F1 == _rollback_state_to_forking_point(Before, self, fork_data.fork_block_hash, F0)
            fork == Len(F1.state.blockchain)
            k == ValidCount(F1, fork_data.new_branch, fork_data.new_branch_hashes)
            hashes(blocks) == [i \in DOMAIN blocks |-> get_hash(blocks[i])]
        IN  (/\ ~InList(last.arg[1], _get_blockchain_hashes(Before, self))
             /\ found.raised = ""
             /\ F1.raised = ""
             /\ k >= 1
             /\ k < Len(fork_data.new_branch))
            => /\ last.raised = ""
               /\ IF fork + k > Len(chain)
                  THEN hashes(state[self].blockchain)
                           = hashes(SubSeq(chain, 1, fork))
                                 \o SubSeq(fork_data.new_branch_hashes, 1, k)
                  ELSE state[self] = Before.state[self]

\* C16: inconsistent sender.  When sender.get_block fails during the backward
\* fork walk, get_introduced_to_new_block returns without raising, the node's
\* chain, utxo set and mempool are unchanged and no peer is notified.
C16_InconsistentSenderIgnored ==
    last.op = "get_introduced_to_new_block" =>
        LET self == last.node
            found == _find_forking_point(Before, self, last.arg[1], last.arg[2])
        IN  (/\ ~InList(last.arg[1], _get_blockchain_hashes(Before, self))
             /\ found.raised = "ValueError")
            => /\ last.raised = ""
               /\ state[self] = Before.state[self]
               /\ last.log = <<>>
\* a node with a chain and a peer has been offered, by a sender with a chain of its
\* own, the hash of a block the sender does not hold
C16_Witness ==
    /\ last.op = "get_introduced_to_new_block"
    /\ last.arg[1] # JunkHash
    /\ last.arg[2] # last.node
    /\ ~InList(last.arg[1], _get_blockchain_hashes(Before, last.node))
    /\ _find_forking_point(Before, last.node, last.arg[1], last.arg[2]).raised = "ValueError"
    /\ Before.state[last.node].blockchain # <<>>
    /\ Before.state[last.arg[2]].blockchain # <<>>
    /\ Before.connections[last.node] # {}
    /\ last.raised = ""

\* C17: peer sets are symmetric in every reachable state: B is in A's peer set
\* if and only if A is in B's, and no node is in its own peer set.
C17_PeerSetsSymmetric ==
    \A A \in Nodes :
        /\ A \notin connections[A]
        /\ \A B \in Nodes : B \in connections[A] <=> A \in connections[B]
\* a node that keeps a peer has disconnected from another, three calls or more
\* having been made before
C17_Witness ==
    /\ last.op = "disconnect_from"
    /\ last.arg[1] \in Before.connections[last.node]
    /\ last.arg[1] \notin connections[last.node]
    /\ connections[last.node] # {}
    /\ calls >= 4

\* C18: connect(other) with the node's own address fails with an error, leaves
\* the peer set, chain, utxo set and mempool unchanged and sends no notification;
\* connect to a peer already connected changes nothing and sends no notification.
C18_ConnectRefusals ==
    last.op = "connect" =>
        LET self == last.node
            other == last.arg[1]
            nothing == /\ connections = Before.connections
                       /\ state = Before.state
                       /\ last.log = <<>>
        IN  /\ get_address(other) = get_address(self) => last.raised # "" /\ nothing
            /\ other \in Before.connections[self] => last.raised = "" /\ nothing
\* a node with a peer, a chain and a pending transaction was asked to connect to
\* itself
C18_Witness ==
    /\ last.op = "connect"
    /\ last.arg[1] = last.node
    /\ last.raised = "ValueError"
    /\ connections[last.node] # {}
    /\ state[last.node].blockchain # <<>>
    /\ state[last.node].mempool # <<>>

\* C19: catch-up on connect.  When two unconnected nodes with valid chains of
\* different lengths connect, in either call direction, each is introduced by
\* the other to the other's tip of the moment and on return the node with the shorter chain has the latest
\* hash of the node with the longer one, whatever the difference in length.
C19_CatchUpOnConnect ==
    last.op = "connect" =>
        LET self == last.node
            other == last.arg[1]
            chainA == Before.state[self].blockchain
            chainB == Before.state[other].blockchain
            longer == IF Len(chainA) > Len(chainB) THEN self ELSE other
            shorter == IF Len(chainA) > Len(chainB) THEN other ELSE self
        IN  (/\ other # self
             /\ other \notin Before.connections[self]
             /\ ValidChain(chainA)
             /\ ValidChain(chainB)
             /\ Len(chainA) # Len(chainB))
            => /\ last.raised = ""
               /\ \E i \in DOMAIN last.log :
                      /\ last.log[i].call = "get_introduced_to_new_block"
                      /\ last.log[i].to = other /\ last.log[i].from = self
               /\ \E i \in DOMAIN last.log :
                      /\ last.log[i].call = "get_introduced_to_new_block"
                      /\ last.log[i].to = self /\ last.log[i].from = other
               /\ get_latest_hash(World, shorter) = get_latest_hash(Before, longer)
               /\ get_latest_hash(World, longer) = get_latest_hash(Before, longer)

\* C20: connect never synchronizes mempools.  connect(other) adds no transaction
\* to the mempool of either node: a transaction pending at one of them before
\* the call and unknown to the other is in neither the mempool nor the utxo set
\* of the other on return, so the other's balance does not count it.
C20_ConnectKeepsMempoolsApart ==
    last.op = "connect" =>
        \A n \in {last.node, last.arg[1]}, m \in {last.node, last.arg[1]} :
            /\ MempoolIds(World, n) \subseteq MempoolIds(Before, n)
            /\ \A T \in SeqToSet(get_mempool(Before, m)) :
                   (/\ get_id(T) \notin MempoolIds(Before, n)
                    /\ get_id(T) \notin UtxoIds(Before, n))
                   => /\ get_id(T) \notin MempoolIds(World, n)
                      /\ get_id(T) \notin UtxoIds(World, n)
                      /\ (T.output = get_address(n) /\ SameChain(Before, n, m))
                             => get_balance(World, n) = get_balance(Before, n)
\* a node with a transaction pending that pays a node it was not connected to
\* has connected to it, and the payee has taken the payer's block
C20_Witness ==
    /\ last.op = "connect"
    /\ last.raised = ""
    /\ last.arg[1] \notin Before.connections[last.node]
    /\ \E T \in SeqToSet(get_mempool(Before, last.node)) :
           /\ T.output = get_address(last.arg[1])
           /\ get_id(T) \notin MempoolIds(Before, last.arg[1])
           /\ get_id(T) \notin MempoolIds(World, last.arg[1])
    /\ get_latest_hash(World, last.arg[1]) # get_latest_hash(Before, last.arg[1])
    /\ get_balance(World, last.arg[1]) = 0

\* C21: disconnect_from(other) removes each node from the other's peer set, does
\* nothing when the two are not connected, calls no get_introduced_to_new_block
\* or add_transaction_to_mempool on any node and leaves every chain, utxo set
\* and mempool unchanged.
C21_DisconnectIsQuiet ==
    last.op = "disconnect_from" =>
        LET self == last.node
            other == last.arg[1]
        IN  /\ last.raised = ""
            /\ last.log = <<>>
            /\ state = Before.state
            /\ other \notin connections[self]
            /\ self \notin connections[other]
            /\ \A n \in Nodes :
                   connections[n] = IF n = self THEN Before.connections[n] \ {other}
                                    ELSE IF n = other THEN Before.connections[n] \ {self}
                                    ELSE Before.connections[n]
            /\ other \notin Before.connections[self] => connections = Before.connections
\* a node with a chain, a pending transaction and two peers has disconnected
\* from one of them
C21_Witness ==
    /\ last.op = "disconnect_from"
    /\ last.arg[1] \in Before.connections[last.node]
    /\ connections[last.node] # {}
    /\ state[last.node].mempool # <<>>
    /\ state[last.node].blockchain # <<>>

\* C22: get_block(h) returns a block if and only if h is the identifier of a
\* block now in the node's chain, and then returns that block; it fails with an
\* error otherwise, the genesis sentinel included, and a failing call changes
\* no state.
C22_GetBlockIffInChain ==
    last.op = "get_block" =>
        LET self == last.node
            block_hash == last.arg[1]
            blockchain == Before.state[self].blockchain
            in_chain == \E i \in DOMAIN blockchain : get_hash(blockchain[i]) = block_hash
        IN  /\ in_chain <=> last.raised = ""
            /\ in_chain => /\ Len(last.ret) = 1
                           /\ get_hash(last.ret[1]) = block_hash
                           /\ InList(last.ret[1], blockchain)
            /\ ~in_chain => last.raised = "ValueError"
            /\ block_hash = GENESIS_BLOCK_PREV => last.raised = "ValueError"
            /\ state = Before.state
            /\ connections = Before.connections
            /\ id_to_transaction = Before.id_to_transaction
\* a node with a chain was asked for a block that only another node holds
C22_Witness ==
    /\ last.op = "get_block"
    /\ last.raised = "ValueError"
    /\ state[last.node].blockchain # <<>>
    /\ \E n \in Nodes : get_block(World, n, last.arg[1]) # <<>>

\* what a block moves of the balance of node n: one coin for each transaction of
\* the block paid to n, less one for each transaction that spends a coin of n
RECURSIVE Moved(_, _, _)
Moved(n, transactions, id_to_tx) ==
    IF transactions = <<>> THEN 0
    ELSE LET t == Head(transactions)
             gained == IF t.output = get_address(n) THEN 1 ELSE 0
             spent == IF ~is_coinbase(t) /\ id_to_tx[t.input].output = get_address(n)
                      THEN 1 ELSE 0
         IN  gained - spent + Moved(n, Tail(transactions), id_to_tx)
\* C23: get_balance() is the number of utxo entries paid to the node; creating
\* or admitting a transaction changes no node's balance; a balance moves only
\* on a node whose chain takes a block, and then by the block's transactions:
\* spender -1, recipient +1, miner +1 for the coinbase.
C23_BalancesMoveByBlocks ==
    /\ \A n \in Nodes :
           get_balance(World, n) =
               Cardinality({i \in DOMAIN state[n].utxo :
                                state[n].utxo[i].output = get_address(n)})
    /\ last.op \in {"create_transaction", "add_transaction_to_mempool"} =>
           \A n \in Nodes : get_balance(World, n) = get_balance(Before, n)
    /\ last.op # "idle" =>
           \A n \in Nodes :
               LET old == _get_blockchain_hashes(Before, n)
                   new == _get_blockchain_hashes(World, n)
                   block == state[n].blockchain[Len(state[n].blockchain)]
               IN  \/ /\ new = old
                      /\ get_balance(World, n) = get_balance(Before, n)
                   \/ /\ Len(new) = Len(old) + 1
                      /\ SubSeq(new, 1, Len(old)) = old
                      /\ get_balance(World, n) = get_balance(Before, n)
                             + Moved(n, block.transactions, id_to_transaction[n])

\* C24: in every state a node's id index maps the identifier of every
\* transaction of its mempool and of every block of its chain to that
\* transaction, and no call removes an entry or maps its identifier to another
\* transaction.  Transaction defines no __eq__: a transaction equals itself only.
C24_IndexKeepsObserved ==
    \A n \in Nodes :
        LET id_to_tx == id_to_transaction[n]
            indexed(t) == get_id(t) \in DOMAIN id_to_tx /\ id_to_tx[get_id(t)] = t
        IN  /\ \A i \in DOMAIN state[n].mempool : indexed(state[n].mempool[i])
            /\ \A b \in DOMAIN state[n].blockchain :
                   \A i \in DOMAIN state[n].blockchain[b].transactions :
                       indexed(state[n].blockchain[b].transactions[i])
            /\ last.op # "idle" =>
                   \A k \in DOMAIN Before.id_to_transaction[n] :
                       k \in DOMAIN id_to_tx /\ id_to_tx[k] = Before.id_to_transaction[n][k]

C26_FreshNode ==
    calls = 0 =>
        /\ \A n \in Nodes :
               /\ state[n].blockchain = <<>>
               /\ get_utxo(World, n) = <<>>
               /\ get_mempool(World, n) = <<>>
               /\ get_connections(World, n) = {}
               /\ get_balance(World, n) = 0
               /\ get_latest_hash(World, n) = GENESIS_BLOCK_PREV
        /\ last.op = "create_transaction" => last.ret = <<>> /\ last.raised = ""
\* a newly constructed node was asked for a transaction and returned None
C26_Witness ==
    /\ calls = 0
    /\ last.op = "create_transaction"
    /\ last.ret = <<>>
    /\ state[last.node] = NodeState(<<>>, <<>>, <<>>)

\* C27: clear_mempool() empties the mempool of the calling node and changes
\* nothing else: its chain, utxo set, id index and peer set and the state of every
\* other node are as before, and no peer is called.
C27_ClearMempoolIsLocal ==
    last.op = "clear_mempool" =>
        /\ last.raised = ""
        /\ last.log = <<>>
        /\ get_mempool(World, last.node) = <<>>
        /\ state = [Before.state EXCEPT ![last.node].mempool = <<>>]
        /\ connections = Before.connections
        /\ id_to_transaction = Before.id_to_transaction
\* a node has cleared a mempool that held a transaction its peer has pending too
C27_Witness ==
    /\ last.op = "clear_mempool"
    /\ Before.state[last.node].mempool # <<>>
    /\ \E n \in connections[last.node] :
           InList(Before.state[last.node].mempool[1], state[n].mempool)

\* get_introduced_to_new_block(block_hash, sender), called on self in the world W,
\* ends without adopting: the hash is known, the fork walk fails, the length
\* guard stops it, or the state validated on the copy is not longer than the
\* node's own
EndsWithoutAdopting(W, self, block_hash, sender) ==
    LET curr_hash_chain == _get_blockchain_hashes(W, self)
        found == _find_forking_point(W, self, block_hash, sender)
    IN  \/ InList(block_hash, curr_hash_chain)
        \/ found.raised = "ValueError"
        \/ get_potential_forked_chain_len(found.fork_data, curr_hash_chain)
               <= Len(curr_hash_chain)
        \/ Len(_reorg_blockchain(W, self, found.fork_data).state.blockchain)
               <= Len(W.state[self].blockchain)
\* C28: speculative reorg is isolated.  Whenever get_introduced_to_new_block ends
\* without adopting, the node's chain, utxo set and mempool are exactly as before
\* the call, whatever rollback and roll-forward did to the copy.
C28_SpeculativeReorgIsolated ==
    (/\ last.op = "get_introduced_to_new_block"
     /\ EndsWithoutAdopting(Before, last.node, last.arg[1], last.arg[2]))
    => /\ last.raised = ""
       /\ state[last.node] = Before.state[last.node]
\* a block of the node's chain was rolled back and a block of the sender's branch
\* added on the copy, which was then no longer than the node's chain
C28_Witness ==
    /\ last.op = "get_introduced_to_new_block"
    /\ ~InList(last.arg[1], _get_blockchain_hashes(Before, last.node))
    /\ LET found == _find_forking_point(Before, last.node, last.arg[1], last.arg[2])
           F == _reorg_blockchain(Before, last.node, found.fork_data)
           blockchain == Before.state[last.node].blockchain
       IN  /\ found.raised = ""
           /\ get_potential_forked_chain_len(found.fork_data,
                  _get_blockchain_hashes(Before, last.node)) > Len(blockchain) + 1
           /\ Len(F.state.blockchain) <= Len(blockchain)
           /\ F.state.blockchain # <<>>
           /\ get_hash(F.state.blockchain[Len(F.state.blockchain)])
                  # get_latest_hash(Before, last.node)
    /\ state[last.node] = Before.state[last.node]

(***************************************************************************)
(* C29: a block is installed before it is published.  At every call        *)
(* peer.get_introduced_to_new_block(h, sender) made during mine_block,     *)
(* connect or an adopting reorganisation, h is the genesis sentinel or the *)
(* hash of the last block of the sender's chain at that moment, with every *)
(* transaction of that block in the sender's utxo and none of them, nor a  *)
(* spender of the same input, in its mempool; get_block(h) of the sender   *)
(* then finds the block.                                                   *)
(***************************************************************************)
InstalledTip(node_state, block_hash) ==
    LET blockchain == node_state.blockchain
    IN  /\ blockchain # <<>>
        /\ get_hash(blockchain[Len(blockchain)]) = block_hash
        /\ \E i \in DOMAIN blockchain : get_hash(blockchain[i]) = block_hash
        /\ \A i \in DOMAIN blockchain[Len(blockchain)].transactions :
               LET transaction == blockchain[Len(blockchain)].transactions[i]
               IN  /\ \E j \in DOMAIN node_state.utxo :
                          get_id(node_state.utxo[j]) = get_id(transaction)
                   /\ \A j \in DOMAIN node_state.mempool :
                          /\ get_id(node_state.mempool[j]) # get_id(transaction)
                          /\ node_state.mempool[j].input # transaction.input
C29_InstallBeforePublish ==
    \A i \in DOMAIN last.log :
        last.log[i].call = "get_introduced_to_new_block"
        => \/ last.log[i].what = GENESIS_BLOCK_PREV
           \/ InstalledTip(last.log[i].at, last.log[i].what)
\* a block mined is published by its miner and, once adopted, by the adopter
C29_Witness ==
    /\ last.op = "mine_block"
    /\ \E i, j \in DOMAIN last.log :
           /\ last.log[i].call = "get_introduced_to_new_block"
           /\ last.log[j].call = "get_introduced_to_new_block"
           /\ last.log[i].from = last.node /\ last.log[j].from # last.node
           /\ last.log[i].what # GENESIS_BLOCK_PREV /\ last.log[j].what # GENESIS_BLOCK_PREV
           /\ Len(last.log[i].at.blockchain[Len(last.log[i].at.blockchain)].transactions) > 1

(***************************************************************************)
(* C30: block gossip terminates.  In any peer graph, cycles included, a    *)
(* mine_block or connect makes finitely many get_introduced_to_new_block   *)
(* calls and returns: a receiver calls its peers only when its chain grew, *)
(* and no chain grows beyond the longest one, so the calls made never      *)
(* exceed those of the caller plus one round of peers for every block a    *)
(* chain is short of the longest.                                          *)
(***************************************************************************)
GossipBudget ==
    LET length(n) == Len(last.pre.state[n].blockchain)
        longest == 1 + (CHOOSE l \in {length(n) : n \in Nodes} :
                            \A n \in Nodes : length(n) <= l)
        RECURSIVE short(_)
        short(S) == IF S = {} THEN 0
                    ELSE LET n == CHOOSE n \in S : TRUE
                         IN  (longest - length(n)) + short(S \ {n})
    IN  2 + (Cardinality(Nodes) - 1) * short(Nodes)
C30_GossipTerminates ==
    /\ [](InGossip => last.made <= GossipBudget)
    /\ InGossip ~> (last = Idle)
\* a block mined in a ring of three nodes has gone round: both peers adopted it and
\* offered it to each other and back to the miner
C30_Witness ==
    /\ last.op = "mine_block"
    /\ last.pending = <<>>
    /\ \A n \in Nodes : connections[n] = Nodes \ {n}
    /\ last.made = 2 * Cardinality(Nodes)
    /\ \A n \in Nodes : get_latest_hash(World, n) = last.ret[1]

(***************************************************************************)
(* C31: transaction gossip terminates.  In any peer graph, cycles          *)
(* included, a create_transaction or add_transaction_to_mempool returns,   *)
(* each node appends the transaction to its mempool at most once during    *)
(* the call, and the add_transaction_to_mempool calls made on peers never  *)
(* exceed one round of peers for every node.                               *)
(***************************************************************************)
TimesHeld(mempool, transaction) ==
    Cardinality({i \in DOMAIN mempool : get_id(mempool[i]) = get_id(transaction)})
C31_TxGossipTerminates ==
    /\ [](Spreads =>
             /\ last.made <= Cardinality(Nodes) * (Cardinality(Nodes) - 1)
             /\ \A n \in Nodes :
                    TimesHeld(state[n].mempool, Gossiped)
                        <= TimesHeld(last.pre.state[n].mempool, Gossiped) + 1)
    /\ InTxGossip ~> (last = Idle)
\* a transaction created in a ring of three nodes has gone round: each peer was
\* called once, admitted it, and passed over the nodes that held it
C31_Witness ==
    /\ last.op = "create_transaction"
    /\ last.ret # <<>>
    /\ last.pending = <<>>
    /\ \A n \in Nodes : connections[n] = Nodes \ {n}
    /\ last.made = Cardinality(Nodes) - 1
    /\ \A n \in Nodes : TimesHeld(state[n].mempool, Gossiped) = 1

(***************************************************************************)
(* C32: roll-forward checks each transaction of a block against the state  *)
(* as the earlier transactions of the block left it: a block offered by a  *)
(* peer in which two transactions other than the coinbase have the same    *)
(* input is refused, and is not appended to the chain.  So no block that a *)
(* node took from a peer during a call holds two such transactions.        *)
(***************************************************************************)
SpendsTwice(block) ==
    \E i, j \in DOMAIN block.transactions :
        /\ i < j
        /\ ~is_coinbase(block.transactions[i])
        /\ ~is_coinbase(block.transactions[j])
        /\ block.transactions[i].input = block.transactions[j].input
C32_DoubleSpendBlockRefused ==
    \A n \in Nodes :
        (last # Idle /\ ~(last.op = "mine_block" /\ n = last.node)) =>
            \A i \in DOMAIN state[n].blockchain :
                i > Len(Before.state[n].blockchain) => ~SpendsTwice(state[n].blockchain[i])

(***************************************************************************)
(* C33: a block in which the input of a transaction is the identifier of   *)
(* another transaction of the same block is refused when a peer offers it: *)
(* it does not become part of the receiver's chain, and the receiver's     *)
(* state is left as it was.                                                *)
(***************************************************************************)
ChainsWithin(block) ==
    \E i, j \in DOMAIN block.transactions :
        /\ i # j
        /\ ~is_coinbase(block.transactions[i])
        /\ block.transactions[i].input = get_id(block.transactions[j])
IdsOf(transactions) == {get_id(t) : t \in SeqToSet(transactions)}
BlocksTransactions(blocks) ==
    UNION {SeqToSet(blocks[i].transactions) : i \in DOMAIN blocks}
C35_RolledBackReturnToMempool ==
    last.op = "get_introduced_to_new_block" =>
        LET self == last.node
            chain == Before.state[self].blockchain
            found == _find_forking_point(Before, self, last.arg[1], last.arg[2])
            fork_data == found.fork_data
            F0 == Frame(copy(Before, Before.state[self]), Before.id_to_transaction[self], "")
            F1 == _rollback_state_to_forking_point(Before, self, fork_data.fork_block_hash, F0)
            fork == Len(F1.state.blockchain)
            new_state == _reorg_blockchain(Before, self, fork_data).state
            rolled_back == BlocksTransactions(SubSeq(chain, fork + 1, Len(chain)))
            in_branch == {get_id(t) : t \in BlocksTransactions(fork_data.new_branch)}
        IN  (/\ ~InList(last.arg[1], _get_blockchain_hashes(Before, self))
             /\ found.raised = ""
             /\ F1.raised = ""
             /\ fork < Len(chain)
             /\ fork + Len(fork_data.new_branch) > Len(chain)
             /\ ValidCount(F1, fork_data.new_branch, fork_data.new_branch_hashes)
                    = Len(fork_data.new_branch))
            => \A t \in rolled_back :
                   (/\ ~is_coinbase(t)
                    /\ get_id(t) \notin in_branch
                    /\ t.input \in IdsOf(new_state.utxo)
                    /\ \A m \in SeqToSet(new_state.mempool) :
                           get_id(m) # get_id(t) => m.input # t.input)
                   => get_id(t) \in MempoolIds(World, self)

(***************************************************************************)
(* C36: no call makes a chain shorter.  After every call the chain of each *)
(* node is at least as long as before it; the chain of the node that       *)
(* called mine_block is longer by exactly one block; and a chain that      *)
(* get_introduced_to_new_block has changed, in a call made directly or by  *)
(* a peer during the call, is strictly longer than it was.                 *)
(***************************************************************************)
C36_ChainLengthNeverDecreases ==
    last # Idle =>
        \A n \in Nodes :
            LET before == Before.state[n].blockchain
                after == state[n].blockchain
            IN  /\ Len(after) >= Len(before)
                /\ (last.op = "mine_block" /\ n = last.node) => Len(after) = Len(before) + 1
                /\ (after # before /\ ~(last.op = "mine_block" /\ n = last.node))
                       => Len(after) > Len(before)
\* a node that has blocks is introduced to a block on its tip and takes it
C36_Witness ==
    /\ last.op = "get_introduced_to_new_block"
    /\ Before.state[last.node].blockchain # <<>>
    /\ Len(state[last.node].blockchain) = Len(Before.state[last.node].blockchain) + 1

(***************************************************************************)
(* C37: coins are conserved.  In every state the calls of the nodes reach, *)
(* a node's utxo has as many entries as its chain has coinbase             *)
(* transactions, its chain has one coinbase transaction for each block,    *)
(* and no two entries of its utxo have the same identifier.                *)
(***************************************************************************)
CoinbasesOf(blockchain) ==
    LET txs == ChainTxs(blockchain)
    IN  Cardinality({i \in DOMAIN txs : is_coinbase(txs[i])})
C37_CoinConservation ==
    \A n \in Nodes :
        /\ Len(state[n].utxo) = CoinbasesOf(state[n].blockchain)
        /\ CoinbasesOf(state[n].blockchain) = Len(state[n].blockchain)
        /\ \A i, j \in DOMAIN state[n].utxo :
               i # j => get_id(state[n].utxo[i]) # get_id(state[n].utxo[j])

(***************************************************************************)
(* C38: the blocks of a chain are well formed.  In every state every block *)
(* of every node's chain has at least one and at most BLOCK_SIZE           *)
(* transactions, exactly one of them a coinbase; and a block that a peer   *)
(* offers under a hash that is not the block's own, or with more than      *)
(* BLOCK_SIZE transactions, or with no coinbase or more than one, enters   *)
(* no chain.                                                               *)
(***************************************************************************)
CoinbaseCount(block) ==
    Cardinality({i \in DOMAIN block.transactions : is_coinbase(block.transactions[i])})
WellFormed(block) ==
    /\ Len(block.transactions) \in 1..BLOCK_SIZE
    /\ CoinbaseCount(block) = NUM_OF_COINBASE_PER_BLOCK
C38_BlocksWellFormed ==
    /\ \A n \in Nodes : \A i \in DOMAIN state[n].blockchain :
           WellFormed(state[n].blockchain[i])
    /\ (/\ last.op = "get_introduced_to_offered_block"
        /\ \/ last.arg[1] # get_hash(last.arg[2])
           \/ Len(last.arg[2].transactions) > BLOCK_SIZE
           \/ CoinbaseCount(last.arg[2]) # NUM_OF_COINBASE_PER_BLOCK)
       => \A n \in Nodes :
              /\ state[n].blockchain = Before.state[n].blockchain
              /\ ~InList(last.arg[2], state[n].blockchain)
\* a block of a coinbase and ten payments, each of which the receiver's state
\* admits, is offered under its own hash
C38_Witness ==
    /\ last.op = "get_introduced_to_offered_block"
    /\ last.arg[1] = get_hash(last.arg[2])
    /\ Len(last.arg[2].transactions) = BLOCK_SIZE + 1
    /\ CoinbaseCount(last.arg[2]) = NUM_OF_COINBASE_PER_BLOCK
    /\ \A i \in 2..(BLOCK_SIZE + 1) :
           validate_transaction_pre_mempool_access(
               last.arg[2].transactions[i], Before.state[last.node],
               Before.id_to_transaction[last.node])

(***************************************************************************)
(* C39: a node that no path of peer connections joins to the nodes a call  *)
(* is made on is left as it was.  After a call on a node (for connect and  *)
(* disconnect_from, on the two nodes), the chain, utxo, mempool and dict   *)
(* of every node that the peer sets before the call join to none of them   *)
(* are those before the call; and a node other than the one called whose   *)
(* state has changed was called, during the call, by one of its peers.     *)
(***************************************************************************)
RECURSIVE JoinedTo(_, _)
JoinedTo(conn, nodes) ==
    LET more == nodes \cup UNION {conn[n] : n \in nodes}
    IN  IF more = nodes THEN nodes ELSE JoinedTo(conn, more)
CalledOn ==
    IF last.op \in {"connect", "disconnect_from"} THEN {last.node, last.arg[1]}
    ELSE {last.node}
C39_UnconnectedIsolated ==
    last # Idle =>
        /\ \A C \in Nodes \ JoinedTo(Before.connections, CalledOn) :
               /\ state[C] = Before.state[C]
               /\ id_to_transaction[C] = Before.id_to_transaction[C]
        /\ \A C \in Nodes \ CalledOn :
               (state[C] # Before.state[C]
                    \/ id_to_transaction[C] # Before.id_to_transaction[C])
               => \E i \in DOMAIN last.log :
                      /\ last.log[i].to = C
                      /\ last.log[i].from \in connections[C]
\* a node with a block of its own has no peer, and the block that another node
\* mines reaches that node's peer
C39_Witness ==
    /\ last.op = "mine_block"
    /\ \E C \in Nodes \ JoinedTo(Before.connections, {last.node}) :
           /\ state[C].blockchain # <<>>
           /\ Len(state[C].blockchain) < Len(state[last.node].blockchain)
    /\ \E p \in connections[last.node] : state[p] # Before.state[p]

====
